---- MODULE Spec2Model ----
(***************************************************************************)
(* Fleet Tracker: the flight state machine of services/tracker.js, the     *)
(* store operations of database/db.js it calls, and the multi-source       *)
(* fetcher of services/dataFetcher.js.                                     *)
(*                                                                         *)
(* Units: timestamps in seconds, altitude in metres, speed in m/s,         *)
(* latitude/longitude in whole degrees, distances in whole metres.         *)
(***************************************************************************)
EXTENDS Integers, Sequences, FiniteSets, TLC

VARIABLES
    current_state,    \* table current_state: icao24 -> row (one row per vehicle seen)
    flights,          \* table flights: sequence of rows, the SERIAL id is the index
    positions,        \* table positions: number of rows inserted, and the last one
    activeFlights,    \* tracker.js Map icao24 -> flight id
    obs,              \* the record handed to the last processAircraftState call
    event,            \* what the last processAircraftState call logged
    raised,           \* TRUE when the last processAircraftState call threw
    nObs,             \* number of processAircraftState calls so far
    indexMiss,        \* TRUE when the last call found no index entry for its vehicle
                      \* although the store held an open flight of it
    calls,            \* processAircraftState calls suspended at an await: their
                      \* position and local variables
    script,           \* the records fed to the tracker, scenario or snapshot
    icao24Array,      \* fetchFleetData: the requested identifiers
    config,           \* fetchFleetData: which sources are enabled
    fpc,              \* fetchFleetData: position in the function
    results,          \* fetchFleetData: Map icao24 -> aircraft, in insertion order
    missingAircraft,  \* fetchFleetData: identifiers still to be resolved
    counts,           \* fetchFleetData: localCount, adsbLolCount, openskyCount
    queries,          \* fetchFleetData: the source calls made, in order
    returned,         \* fetchFleetData: the returned object
    raw,              \* adapters: the aircraft object a source delivered
    canonical,        \* adapters: the record the adapter built from it
    stored,           \* adapters: the on_ground column written for that record
    apc,              \* adapters: position in the pipeline
    cycles,           \* server.js: the pollFleetData calls, each with its position
    timer,            \* server.js: TRUE once setInterval(pollFleetData, ...) is installed
    clock,            \* OpenSkyClient: Date.now(), in seconds
    credentials,      \* OpenSkyClient: TRUE when client id and secret are configured
    accessToken,      \* OpenSkyClient: this.accessToken
    tokenExpiry,      \* OpenSkyClient: this.tokenExpiry, in milliseconds
    granted,          \* OpenSkyClient: time and declared lifetime of the last token grant
    tpc,              \* OpenSkyClient: position of the call in progress
    tokenRequests,    \* OpenSkyClient: number of token requests sent
    outcome,          \* OpenSkyClient: how the last getAccessToken / states request ended
    lolIds,           \* fetchFromAdsbLol: the identifiers asked for
    lolAnswers,       \* fetchFromAdsbLol: what adsb.lol answers to the request of each
    lolSettled,       \* fetchFromAdsbLol: index -> result of the requests settled so far
    lolOrder,         \* fetchFromAdsbLol: the identifiers in the order their requests settled
    lolData,          \* fetchFromAdsbLol: the returned object
    lpc               \* fetchFromAdsbLol: position in the function

trackVars ==
    <<current_state, flights, positions, activeFlights, obs, event, raised, nObs, indexMiss,
      calls>>
fetchVars == <<icao24Array, config, fpc, results, missingAircraft, counts, queries, returned>>
adapterVars == <<raw, canonical, stored, apc>>
pollVars == <<cycles, timer>>
tokenVars ==
    <<clock, credentials, accessToken, tokenExpiry, granted, tpc, tokenRequests, outcome>>
lolVars == <<lolIds, lolAnswers, lolSettled, lolOrder, lolData, lpc>>
auxVars == <<adapterVars, pollVars, tokenVars, lolVars>>
vars == <<trackVars, script, fetchVars, auxVars>>

----------------------------------------------------------------------------
(* Values *)

\* JS null / SQL NULL in a numeric field
Null == -1
\* JS undefined: a key absent from a partial update object
Undef == -2
\* JS NaN
NaN == -4

\* bound: processAircraftState calls explored
MaxObs == 4
\* bound: vehicles observed in one run
MaxVehicles == 1

\* JS truthiness of a number-or-null: null and 0 are falsy
Truthy(x) == x # Null /\ x # 0
\* JS ToNumber in a relational comparison: null compares as 0
Num(x) == IF x = Null THEN 0 ELSE x

Abs(x) == IF x < 0 THEN -x ELSE x

\* vehicles polled (user_aircraft) and vehicles listed in config.aircraft
Vehicles == {"a1", "b2"}
ConfigAircraft == {"a1"}

\* Inputs of processAircraftState. All positions lie on one meridian.
\* <<latitude, longitude>>
Located == {<<1, 1>>, <<2, 1>>}
Unlocated == {<<Null, 1>>, <<1, Null>>, <<Null, Null>>}
\* <<altitude, velocity, heading>> around the 50 m, 15 m/s and 5 m/s thresholds
Kinematics ==
    {<<Null, Null, Null>>, <<5, 2, 90>>, <<5, 5, 0>>, <<50, 20, 90>>,
     <<100, 15, Null>>, <<100, 20, 270>>}
OnGroundValues == {"true", "false", "null"}
Timestamps == {1000, 1600}

Observation(v, t, p, k, og) ==
    [icao24 |-> v, lastContact |-> t, latitude |-> p[1], longitude |-> p[2],
     altitude |-> k[1], velocity |-> k[2], heading |-> k[3], onGround |-> og]

Observations ==
    {Observation(v, t, p, k, og) :
        v \in Vehicles, t \in Timestamps, p \in Located,
        k \in Kinematics, og \in OnGroundValues}
    \cup
    {Observation(v, 1000, p, <<100, 20, 270>>, og) :
        v \in Vehicles, p \in Unlocated, og \in OnGroundValues}

NoObs == [icao24 |-> "", lastContact |-> Null, latitude |-> Null, longitude |-> Null,
          altitude |-> Null, velocity |-> Null, heading |-> Null, onGround |-> "null"]

----------------------------------------------------------------------------
(* database/db.js *)

\* `onGround ? 1 : 0` of savePosition and updateCurrentState
OnGroundColumn(og) == IF og = "true" THEN 1 ELSE 0

\* INSERT INTO positions: the row inserted (vertical_rate is not modelled)
PositionRow(o) ==
    [icao24 |-> o.icao24, timestamp |-> o.lastContact, latitude |-> o.latitude,
     longitude |-> o.longitude, altitude |-> o.altitude, velocity |-> o.velocity,
     heading |-> o.heading, on_ground |-> OnGroundColumn(o.onGround)]

savePosition(pos, o) == [count |-> pos.count + 1, last |-> PositionRow(o)]

\* INSERT ... ON CONFLICT(icao24) DO UPDATE
updateCurrentState(cs, o) ==
    [v \in DOMAIN cs \cup {o.icao24} |->
        IF v = o.icao24
        THEN [timestamp |-> o.lastContact, latitude |-> o.latitude,
              longitude |-> o.longitude, altitude |-> o.altitude,
              velocity |-> o.velocity, heading |-> o.heading,
              on_ground |-> OnGroundColumn(o.onGround)]
        ELSE cs[v]]

\* result.rows[0] of SELECT * FROM current_state WHERE icao24 = $1
HasCurrentState(cs, icao24) == icao24 \in DOMAIN cs

\* INSERT INTO flights ... RETURNING id
createFlight(fl, icao24, takeoffTime, latitude, longitude, altitude) ==
    Append(fl, [icao24 |-> icao24, takeoff_time |-> takeoffTime,
                landing_time |-> Null,
                takeoff_latitude |-> latitude, takeoff_longitude |-> longitude,
                landing_latitude |-> Null, landing_longitude |-> Null,
                max_altitude |-> altitude, distance_km |-> Null,
                duration_seconds |-> Null])

NoUpdates == [landingTime |-> Undef, landingLatitude |-> Undef,
              landingLongitude |-> Undef, maxAltitude |-> Undef,
              distanceKm |-> Undef, durationSeconds |-> Undef]

Written(old, new) == IF new = Undef THEN old ELSE new

\* UPDATE flights SET <the fields given> WHERE id = flightId
updateFlight(fl, flightId, updates) ==
    IF updates = NoUpdates \/ flightId \notin 1..Len(fl) THEN fl
    ELSE [fl EXCEPT ![flightId] =
            [@ EXCEPT !.landing_time = Written(@, updates.landingTime),
                      !.landing_latitude = Written(@, updates.landingLatitude),
                      !.landing_longitude = Written(@, updates.landingLongitude),
                      !.max_altitude = Written(@, updates.maxAltitude),
                      !.distance_km = Written(@, updates.distanceKm),
                      !.duration_seconds = Written(@, updates.durationSeconds)]]

\* variant: closed flights are selected as well
OpenFlights_All(fl, icao24) ==
    {i \in 1..Len(fl) : fl[i].icao24 = icao24}

\* the rows WHERE icao24 = $1 AND landing_time IS NULL
OpenFlights(fl, icao24) ==
    {i \in 1..Len(fl) : fl[i].icao24 = icao24 /\ fl[i].landing_time = Null}

\* variant: the query never returns a row
getActiveFlight_NoRow(fl, icao24) == {0}

\* WHERE icao24 = $1 AND landing_time IS NULL ORDER BY takeoff_time DESC LIMIT 1:
\* the ids of the rows the query may return, {0} when it returns no row.
\* Rows with equal takeoff_time are returned in no defined order.
getActiveFlight(fl, icao24) ==
    LET open == OpenFlights(fl, icao24)
    IN IF open = {} THEN {0}
       ELSE {i \in open : \A j \in open : fl[j].takeoff_time <= fl[i].takeoff_time}

----------------------------------------------------------------------------
(* services/tracker.js *)

\* Earth radius in km
R == 6371

\* Haversine distance, in metres. With both points on one meridian dLon = 0,
\* a = sin^2(dLat/2), c = |dLat| in radians, so the result is R * |dLat| * pi/180 km
\* (pi taken as 3.1416; 1000 * 3.1416 / 180 = 31416 / 1800).
calculateDistance(lat1, lon1, lat2, lon2) ==
    (R * Abs(lat2 - lat1) * 31416) \div 1800

\* activeFlights.get(icao24): 0 stands for undefined
IndexGet(af, icao24) == IF icao24 \in DOMAIN af THEN af[icao24] ELSE 0
\* activeFlights.set(icao24, flightId)
IndexSet(af, icao24, flightId) ==
    [v \in DOMAIN af \cup {icao24} |-> IF v = icao24 THEN flightId ELSE af[v]]
\* variant: the entry survives the landing
IndexDelete_Kept(af, icao24) == af
\* activeFlights.delete(icao24)
IndexDelete(af, icao24) == [v \in DOMAIN af \ {icao24} |-> af[v]]

\* variant: the thresholds taken as inclusive
AboveTakeoffThresholds_Inclusive(altitude, velocity) ==
    Truthy(altitude) /\ Num(altitude) >= 50 /\ Truthy(velocity) /\ Num(velocity) >= 15

\* altitude && altitude > 50 && velocity && velocity > 15
AboveTakeoffThresholds(altitude, velocity) ==
    Truthy(altitude) /\ Num(altitude) > 50 /\ Truthy(velocity) /\ Num(velocity) > 15

BelowLandingThreshold(velocity) == velocity # Null /\ Num(velocity) < 5

detectStateChange(newState, previousState) ==
    LET wasOnGround == previousState.on_ground = 1
        isOnGround == newState.onGround = "true"
    IN IF newState.onGround = "null" THEN "null"
       ELSE IF wasOnGround /\ ~isOnGround
               /\ AboveTakeoffThresholds(newState.altitude, newState.velocity)
            THEN "TAKEOFF"
       ELSE IF ~wasOnGround /\ isOnGround /\ BelowLandingThreshold(newState.velocity)
            THEN "LANDING"
       ELSE "null"

\* The part of the state a processAircraftState call works on, and its outcome.
Outcome(cs, fl, af, ev, threw) ==
    [current_state |-> cs, flights |-> fl, activeFlights |-> af,
     event |-> ev, raised |-> threw]

\* handleStateChange, eventType TAKEOFF
HandleTakeoff(cs, fl, af, newState) ==
    LET fl2 == createFlight(fl, newState.icao24, newState.lastContact,
                            newState.latitude, newState.longitude, newState.altitude)
    IN {Outcome(cs, fl2, IndexSet(af, newState.icao24, Len(fl2)), "TAKEOFF", FALSE)}

\* variant: the duration counted from the previous record
LandingUpdates_SincePrevious(flight, newState, previousState) ==
    [NoUpdates EXCEPT !.landingTime = newState.lastContact,
                      !.landingLatitude = newState.latitude,
                      !.landingLongitude = newState.longitude,
                      !.distanceKm =
                          (IF Truthy(flight.distance_km) THEN flight.distance_km ELSE 0)
                          + (IF Truthy(previousState.latitude)
                                /\ Truthy(previousState.longitude)
                             THEN calculateDistance(previousState.latitude,
                                                    previousState.longitude,
                                                    newState.latitude, newState.longitude)
                             ELSE 0),
                      !.durationSeconds = newState.lastContact - previousState.timestamp]

\* handleStateChange, eventType LANDING: the updates written for the flight row read
LandingUpdates(flight, newState, previousState) ==
    LET totalDistance ==
            (IF Truthy(flight.distance_km) THEN flight.distance_km ELSE 0)
            + (IF Truthy(previousState.latitude) /\ Truthy(previousState.longitude)
               THEN calculateDistance(previousState.latitude, previousState.longitude,
                                      newState.latitude, newState.longitude)
               ELSE 0)
    IN [NoUpdates EXCEPT !.landingTime = newState.lastContact,
                         !.landingLatitude = newState.latitude,
                         !.landingLongitude = newState.longitude,
                         !.distanceKm = totalDistance,
                         !.durationSeconds = newState.lastContact - flight.takeoff_time]

\* variant: a landing that resolves no flight reads the missing row
HandleLanding_UnmatchedRaises(cs, fl, af, newState, previousState) ==
    LET icao24 == newState.icao24
        inMemory == IndexGet(af, icao24)
        resolved == IF inMemory # 0 THEN {inMemory} ELSE getActiveFlight(fl, icao24)
    IN UNION {
         { IF flight = 0
           THEN Outcome(cs, fl, af, "LANDING", TRUE)
           ELSE Outcome(cs,
                        updateFlight(fl, flightId,
                                     LandingUpdates(fl[flight], newState, previousState)),
                        IndexDelete(af, icao24), "LANDING", FALSE)
           : flight \in getActiveFlight(fl, icao24) }
         : flightId \in resolved }

\* handleStateChange, eventType LANDING
HandleLanding(cs, fl, af, newState, previousState) ==
    LET icao24 == newState.icao24
        inMemory == IndexGet(af, icao24)
        resolved == IF inMemory # 0 THEN {inMemory} ELSE getActiveFlight(fl, icao24)
    IN UNION {
         IF flightId = 0
         THEN {Outcome(cs, fl, af, "LANDING_UNMATCHED", FALSE)}
         ELSE { IF flight = 0
                THEN Outcome(cs, fl, af, "LANDING", TRUE)   \* flight.takeoff_time of undefined
                ELSE Outcome(cs,
                             updateFlight(fl, flightId,
                                          LandingUpdates(fl[flight], newState, previousState)),
                             IndexDelete(af, icao24), "LANDING", FALSE)
                : flight \in getActiveFlight(fl, icao24) }
         : flightId \in resolved }

\* updateOngoingFlight: the updates object built from the flight row read
OngoingUpdates(flight, newState, previousState) ==
    LET maxAltitude ==
            IF Truthy(newState.altitude)
               /\ (~Truthy(flight.max_altitude)
                   \/ Num(newState.altitude) > Num(flight.max_altitude))
            THEN newState.altitude ELSE Undef
        distanceKm ==
            IF Truthy(previousState.latitude) /\ Truthy(previousState.longitude)
               /\ Truthy(newState.latitude) /\ Truthy(newState.longitude)
            THEN (IF Truthy(flight.distance_km) THEN flight.distance_km ELSE 0)
                 + calculateDistance(previousState.latitude, previousState.longitude,
                                     newState.latitude, newState.longitude)
            ELSE Undef
    IN [NoUpdates EXCEPT !.maxAltitude = maxAltitude, !.distanceKm = distanceKm]

updateOngoingFlight(cs, fl, af, newState, previousState) ==
    LET icao24 == newState.icao24
        inMemory == IndexGet(af, icao24)
        resolved == IF inMemory # 0 THEN {inMemory} ELSE getActiveFlight(fl, icao24)
    IN UNION {
         LET af2 == IF inMemory = 0 /\ flightId # 0
                    THEN IndexSet(af, icao24, flightId) ELSE af
         IN IF flightId # 0 /\ newState.onGround # "true"
            THEN { IF flight = 0
                   THEN Outcome(cs, fl, af2, "ONGOING", TRUE)  \* flight.max_altitude of undefined
                   ELSE Outcome(cs,
                                updateFlight(fl, flightId,
                                             OngoingUpdates(fl[flight], newState, previousState)),
                                af2, "ONGOING", FALSE)
                   : flight \in getActiveFlight(fl, icao24) }
            ELSE {Outcome(cs, fl, af2, "NONE", FALSE)}
         : flightId \in resolved }

\* variant: the flight of a first airborne observation is created but not indexed
FirstObservation_Unindexed(cs, fl, af, newState) ==
    IF newState.onGround # "true"
       /\ AboveTakeoffThresholds(newState.altitude, newState.velocity)
    THEN {Outcome(cs, createFlight(fl, newState.icao24, newState.lastContact,
                                   newState.latitude, newState.longitude,
                                   newState.altitude),
                  af, "FIRST_AIRBORNE", FALSE)}
    ELSE {Outcome(cs, fl, af, "FIRST", FALSE)}

\* processAircraftState, the branch taken when no previous state exists
FirstObservation(cs, fl, af, newState) ==
    IF newState.onGround # "true"
       /\ AboveTakeoffThresholds(newState.altitude, newState.velocity)
    THEN LET fl2 == createFlight(fl, newState.icao24, newState.lastContact,
                                 newState.latitude, newState.longitude, newState.altitude)
         IN {Outcome(cs, fl2, IndexSet(af, newState.icao24, Len(fl2)), "FIRST_AIRBORNE", FALSE)}
    ELSE {Outcome(cs, fl, af, "FIRST", FALSE)}

\* variant: no record is skipped
MissingPosition_Never(aircraftData) == FALSE

\* latitude === null || longitude === null
MissingPosition(aircraftData) ==
    aircraftData.latitude = Null \/ aircraftData.longitude = Null

\* processAircraftState: the outcomes of one call on store cs, fl and index af
processAircraftState(cs, fl, af, aircraftData) ==
    IF MissingPosition(aircraftData)
    THEN {Outcome(cs, fl, af, "SKIP", FALSE)}
    ELSE LET cs2 == updateCurrentState(cs, aircraftData)
         IN IF HasCurrentState(cs, aircraftData.icao24)
            THEN LET previousState == cs[aircraftData.icao24]
                     stateChange == detectStateChange(aircraftData, previousState)
                 IN IF stateChange = "TAKEOFF"
                    THEN HandleTakeoff(cs2, fl, af, aircraftData)
                    ELSE IF stateChange = "LANDING"
                    THEN HandleLanding(cs2, fl, af, aircraftData, previousState)
                    ELSE updateOngoingFlight(cs2, fl, af, aircraftData, previousState)
            ELSE FirstObservation(cs2, fl, af, aircraftData)

\* initializeActiveFlights on a fresh (empty) Map: the Maps it may produce
initializeActiveFlights(fl) ==
    LET found == {v \in ConfigAircraft : OpenFlights(fl, v) # {}}
    IN {af \in [found -> 1..Len(fl)] : \A v \in found : af[v] \in getActiveFlight(fl, v)}

----------------------------------------------------------------------------
(* The tracker as a state machine: server.js feeds it one record at a time *)

EmptyMap == [v \in {} |-> 0]

TrackerEmpty ==
    /\ current_state = EmptyMap
    /\ flights = <<>>
    /\ positions = [count |-> 0, last |-> PositionRow(NoObs)]
    /\ activeFlights = EmptyMap
    /\ obs = NoObs
    /\ event = "START"
    /\ raised = FALSE
    /\ nObs = 0
    /\ indexMiss = FALSE
    /\ calls = <<>>

FetcherIdle ==
    /\ icao24Array = <<>>
    /\ config = [dump1090 |-> FALSE, adsbLol |-> FALSE]
    /\ fpc = "idle"
    /\ results = <<>>
    /\ missingAircraft = <<>>
    /\ counts = [local |-> 0, adsbLol |-> 0, opensky |-> 0]
    /\ queries = <<>>
    /\ returned = [error |-> "", aircraft |-> <<>>,
                   sources |-> [local |-> 0, adsbLol |-> 0, opensky |-> 0]]

\* No fetchFromAdsbLol call is in progress
LolIdle ==
    /\ lolIds = <<>>
    /\ lolAnswers = <<>>
    /\ lolSettled = <<>>
    /\ lolOrder = <<>>
    /\ lolData = [threw |-> FALSE, aircraft |-> <<>>]
    /\ lpc = "idle"

\* No adapter has run
AdapterIdle ==
    /\ raw = [source |-> "none"]
    /\ canonical = [source |-> "none"]
    /\ stored = Null
    /\ apc = "idle"

\* server.js not started
PollIdle ==
    /\ cycles = <<>>
    /\ timer = FALSE

\* new OpenSkyClient() without credentials, never called
TokenIdle ==
    /\ clock = 0
    /\ credentials = FALSE
    /\ accessToken = Null
    /\ tokenExpiry = Null
    /\ granted = [at |-> Null, expires_in |-> Null]
    /\ tpc = "idle"
    /\ tokenRequests = 0
    /\ outcome = [call |-> "none", token |-> Null, states |-> "none"]

\* One await tracker.processAircraftState(aircraftData) of pollFleetData
Process(aircraftData) ==
    \E out \in processAircraftState(current_state, flights, activeFlights, aircraftData) :
        /\ current_state' = out.current_state
        /\ flights' = out.flights
        /\ activeFlights' = out.activeFlights
        /\ event' = out.event
        /\ raised' = out.raised
        /\ positions' = IF out.event = "SKIP" THEN positions
                         ELSE savePosition(positions, aircraftData)
        /\ obs' = aircraftData
        /\ nObs' = nObs + 1
        /\ indexMiss' = (/\ out.event # "SKIP"
                         /\ aircraftData.icao24 \notin DOMAIN activeFlights
                         /\ OpenFlights(flights, aircraftData.icao24) # {})
        /\ calls' = calls

Observe ==
    /\ nObs < MaxObs
    /\ \E aircraftData \in Observations :
          /\ Cardinality(DOMAIN current_state \cup {aircraftData.icao24}) <= MaxVehicles
          /\ Process(aircraftData)
    /\ UNCHANGED <<script, fetchVars, auxVars>>

\* The process stops and is started again: the Map is lost, the store is kept,
\* and startServer runs initializeActiveFlights before the first poll.
Restart ==
    /\ activeFlights' \in initializeActiveFlights(flights)
    /\ obs' = NoObs
    /\ event' = "RESTART"
    /\ raised' = FALSE
    /\ indexMiss' = FALSE
    /\ UNCHANGED <<current_state, flights, positions, nObs, calls, script, fetchVars, auxVars>>

Init ==
    TrackerEmpty /\ script = <<>> /\ FetcherIdle /\ AdapterIdle /\ PollIdle /\ TokenIdle /\ LolIdle

Next == Observe \/ Restart

Spec == Init /\ [][Next]_vars

----------------------------------------------------------------------------
(* The tracker fed records of a vehicle climbing and descending *)

\* <<altitude, velocity, heading>>: taxiing too fast to count as landed, and
\* three flight levels
ClimbKinematics == {<<5, 5, 0>>, <<100, 20, 270>>, <<150, 20, 90>>, <<200, 20, 90>>}

ClimbObservations ==
    {Observation(v, t, p, k, og) :
        v \in Vehicles, t \in Timestamps, p \in Located,
        k \in ClimbKinematics, og \in {"true", "false"}}

ObserveClimb ==
    /\ nObs < MaxObs
    /\ \E aircraftData \in ClimbObservations :
          /\ Cardinality(DOMAIN current_state \cup {aircraftData.icao24}) <= MaxVehicles
          /\ Process(aircraftData)
    /\ UNCHANGED <<script, fetchVars, auxVars>>

ClimbNext == ObserveClimb \/ Restart

ClimbSpec == Init /\ [][ClimbNext]_vars

----------------------------------------------------------------------------
(* The tracker fed the records of each vehicle in timestamp order *)

\* the record is not older than the last one stored for its vehicle
InOrder(aircraftData) ==
    HasCurrentState(current_state, aircraftData.icao24)
        => aircraftData.lastContact >= current_state[aircraftData.icao24].timestamp

ObserveInOrder ==
    /\ nObs < MaxObs
    /\ \E aircraftData \in Observations :
          /\ Cardinality(DOMAIN current_state \cup {aircraftData.icao24}) <= MaxVehicles
          /\ InOrder(aircraftData)
          /\ Process(aircraftData)
    /\ UNCHANGED <<script, fetchVars, auxVars>>

InOrderNext == ObserveInOrder \/ Restart

InOrderSpec == Init /\ [][InOrderNext]_vars

----------------------------------------------------------------------------
(* The tracker beside another writer of the store *)

\* Another process instance handles a landing: it closes an open flight in the
\* store; this instance's Map is not told
ClosedElsewhere ==
    /\ \E f \in 1..Len(flights), t \in Timestamps :
          /\ flights[f].landing_time = Null
          /\ flights' = updateFlight(flights, f,
                            [NoUpdates EXCEPT !.landingTime = t,
                                              !.landingLatitude = flights[f].takeoff_latitude,
                                              !.landingLongitude = flights[f].takeoff_longitude,
                                              !.distanceKm = IF flights[f].distance_km = Null
                                                             THEN 0 ELSE flights[f].distance_km,
                                              !.durationSeconds = t - flights[f].takeoff_time])
    /\ UNCHANGED <<current_state, positions, activeFlights, obs, event, raised, nObs,
                   indexMiss, calls, script, fetchVars, auxVars>>

SharedStoreNext == Observe \/ ClosedElsewhere

SharedStoreSpec == Init /\ [][SharedStoreNext]_vars

----------------------------------------------------------------------------
(* The tracker stopped inside a processAircraftState call *)

\* <<altitude, velocity, heading>>: parked, and flying above both thresholds
CrashKinematics == {<<5, 2, 90>>, <<100, 20, 270>>}

CrashObservations ==
    {Observation(v, t, p, k, og) :
        v \in Vehicles, t \in Timestamps, p \in Located,
        k \in CrashKinematics, og \in {"true", "false"}}

ObserveCrash ==
    /\ nObs < MaxObs
    /\ \E aircraftData \in CrashObservations :
          /\ Cardinality(DOMAIN current_state \cup {aircraftData.icao24}) <= MaxVehicles
          /\ Process(aircraftData)
    /\ UNCHANGED <<script, fetchVars, auxVars>>

\* The branch a call was about to take when the process stopped
InterruptedBranch(cs, aircraftData) ==
    IF HasCurrentState(cs, aircraftData.icao24)
    THEN detectStateChange(aircraftData, cs[aircraftData.icao24])
    ELSE "FIRST"

\* The process stops at the await after savePosition: the position row is
\* stored, the last-known state is not yet written. startServer then rebuilds
\* the Map.
CrashAfterSavePosition ==
    /\ nObs < MaxObs
    /\ \E aircraftData \in CrashObservations :
          /\ Cardinality(DOMAIN current_state \cup {aircraftData.icao24}) <= MaxVehicles
          /\ ~MissingPosition(aircraftData)
          /\ positions' = savePosition(positions, aircraftData)
          /\ obs' = aircraftData
    /\ activeFlights' \in initializeActiveFlights(flights)
    /\ event' = "CRASH_SAVED"
    /\ raised' = FALSE
    /\ nObs' = nObs + 1
    /\ indexMiss' = FALSE
    /\ UNCHANGED <<current_state, flights, calls, script, fetchVars, auxVars>>

\* The process stops at an await after updateCurrentState and before the flight
\* row is written (createFlight, getActiveFlight or updateFlight pending): the
\* last-known state holds the new record, the flights table is as before.
CrashAfterUpsert ==
    /\ nObs < MaxObs
    /\ \E aircraftData \in CrashObservations :
          /\ Cardinality(DOMAIN current_state \cup {aircraftData.icao24}) <= MaxVehicles
          /\ ~MissingPosition(aircraftData)
          /\ positions' = savePosition(positions, aircraftData)
          /\ current_state' = updateCurrentState(current_state, aircraftData)
          /\ event' = "CRASH_" \o InterruptedBranch(current_state, aircraftData)
          /\ obs' = aircraftData
    /\ activeFlights' \in initializeActiveFlights(flights)
    /\ raised' = FALSE
    /\ nObs' = nObs + 1
    /\ indexMiss' = FALSE
    /\ UNCHANGED <<flights, calls, script, fetchVars, auxVars>>

CrashNext == ObserveCrash \/ CrashAfterSavePosition \/ CrashAfterUpsert \/ Restart

CrashSpec == Init /\ [][CrashNext]_vars

----------------------------------------------------------------------------
(* The tracker fed a takeoff-landing round trip *)

\* Positions of the round trip; latitude 0 is the equator
RoundTripPositions == {<<0, 1>>, <<1, 1>>, <<2, 1>>}

\* ground (alt 0, speed 0), airborne (alt 100, speed 20), ground (alt 5, speed 2),
\* the last two 600 s apart
RoundTrips ==
    {<<Observation(v, t1, p1, <<0, 0, 0>>, "true"),
       Observation(v, t2, p2, <<100, 20, 270>>, "false"),
       Observation(v, t2 + 600, p3, <<5, 2, 90>>, "true")>> :
        v \in Vehicles, t1 \in {400, 1000}, t2 \in {1000},
        p1 \in RoundTripPositions, p2 \in RoundTripPositions, p3 \in RoundTripPositions}

\* pollFleetData hands the next record of the script to the tracker
Feed ==
    /\ nObs < Len(script)
    /\ Process(script[nObs + 1])
    /\ UNCHANGED <<script, fetchVars, auxVars>>

RoundTripInit ==
    /\ TrackerEmpty /\ script \in RoundTrips
    /\ FetcherIdle /\ AdapterIdle /\ PollIdle /\ TokenIdle /\ LolIdle

RoundTripNext == Feed

RoundTripSpec == RoundTripInit /\ [][RoundTripNext]_vars

----------------------------------------------------------------------------
(* The tracker fed one flight: ground, takeoff, cruise, landing *)

\* on the ground at (1,1); airborne above both thresholds; airborne again;
\* on the ground below 5 m/s. The three positions flown vary.
Legs ==
    {<<Observation(v, 400, <<1, 1>>, <<0, 0, 0>>, "true"),
       Observation(v, 1000, p2, <<100, 20, 270>>, "false"),
       Observation(v, 1300, p3, <<100, 20, 270>>, og),
       Observation(v, 1600, p4, <<5, 2, 90>>, "true")>> :
        v \in Vehicles, og \in {"false", "null"},
        p2 \in RoundTripPositions, p3 \in RoundTripPositions, p4 \in RoundTripPositions}

LegInit ==
    /\ TrackerEmpty /\ script \in Legs
    /\ FetcherIdle /\ AdapterIdle /\ PollIdle /\ TokenIdle /\ LolIdle

LegNext == Feed

LegSpec == LegInit /\ [][LegNext]_vars

----------------------------------------------------------------------------
(* The tracker fed a departure: on the ground, then airborne *)

\* <<altitude, velocity, heading>> of an airborne record that does not clear
\* both takeoff thresholds (altitude > 50 and speed > 15)
BelowThresholds == {<<50, 20, 90>>, <<100, 15, Null>>, <<5, 20, 90>>}

\* Records processed between the ground record and the record that clears the
\* thresholds: airborne below a threshold, or with the on-ground flag unknown
ClimbOut(v) ==
    {Observation(v, 1000, p, k, "false") : p \in Located, k \in BelowThresholds}
    \cup
    {Observation(v, 1000, p, k, "null") :
        p \in Located, k \in BelowThresholds \cup {<<100, 20, 270>>}}

\* on the ground; none, one or two records of the climb-out; airborne above
\* both thresholds
Departures ==
    UNION {
      LET ground == Observation(v, 1000, <<1, 1>>, <<5, 2, 90>>, "true")
          airborne == Observation(v, 1600, <<2, 1>>, <<100, 20, 270>>, "false")
      IN {<<ground, airborne>>}
         \cup {<<ground, m, airborne>> : m \in ClimbOut(v)}
         \cup {<<ground, m, n, airborne>> : m \in ClimbOut(v), n \in ClimbOut(v)}
      : v \in Vehicles }

DepartureInit ==
    /\ TrackerEmpty /\ script \in Departures
    /\ FetcherIdle /\ AdapterIdle /\ PollIdle /\ TokenIdle /\ LolIdle

DepartureNext == Feed

DepartureSpec == DepartureInit /\ [][DepartureNext]_vars

----------------------------------------------------------------------------
(* Two processAircraftState calls of one vehicle in progress at once *)

\* A step of a call is one store operation together with the code that runs
\* when it resolves, up to the next await.

RaceAirborne(v) ==
    {Observation(v, t, p, <<100, 20, 270>>, "false") : t \in Timestamps, p \in Located}

RaceLanded(v) ==
    {Observation(v, t, p, <<5, 2, 90>>, "true") : t \in Timestamps, p \in Located}

\* A first record processed alone (on the ground, or airborne), then the records
\* of two overlapping poll cycles: both show the vehicle airborne, or both landed
RaceScripts ==
    UNION {
      {<<first, pair[1], pair[2]>> :
          first \in {Observation(v, 1000, <<1, 1>>, <<5, 2, 90>>, "true"),
                     Observation(v, 1000, <<1, 1>>, <<100, 20, 270>>, "false")},
          pair \in (RaceAirborne(v) \X RaceAirborne(v))
                    \cup (RaceLanded(v) \X RaceLanded(v))}
      : v \in Vehicles }

\* The calls that may overlap: those of the second and the third record
RaceCalls == {2, 3}

Local(pc, previousState, flightId, updates) ==
    [pc |-> pc, previousState |-> previousState, flightId |-> flightId,
     updates |-> updates]

Moved(local, pc) == [local EXCEPT !.pc = pc]

SetCall(c, local) ==
    calls' = [k \in DOMAIN calls \cup {c} |-> IF k = c THEN local ELSE calls[k]]

At(c, pcs) == c \in DOMAIN calls /\ calls[c].pc \in pcs

\* processAircraftState after updateCurrentState resolved: detectStateChange,
\* the Map lookup of the handler entered, and the store call it then awaits
AfterUpsert(local, newState, af) ==
    LET inMemory == IndexGet(af, newState.icao24)
    IN IF local.previousState = <<>>
       THEN IF newState.onGround # "true"
               /\ AboveTakeoffThresholds(newState.altitude, newState.velocity)
            THEN Moved(local, "createFlight")
            ELSE Moved(local, "done")
       ELSE LET stateChange == detectStateChange(newState, local.previousState[1])
            IN CASE stateChange = "TAKEOFF" -> Moved(local, "createFlight")
                 [] stateChange = "LANDING" ->
                      IF inMemory = 0 THEN Moved(local, "resolveLanding")
                      ELSE [local EXCEPT !.pc = "readLanding", !.flightId = inMemory]
                 [] OTHER ->
                      IF inMemory = 0 THEN Moved(local, "resolveOngoing")
                      ELSE IF newState.onGround # "true"
                      THEN [local EXCEPT !.pc = "readOngoing", !.flightId = inMemory]
                      ELSE Moved(local, "done")

\* the first record is processed with no other call in progress
RaceFirst ==
    /\ nObs = 0
    /\ Process(script[1])
    /\ UNCHANGED <<script, fetchVars, auxVars>>

\* a call starts and db.getCurrentState resolves
CallBegin ==
    /\ nObs >= 1
    /\ \E c \in RaceCalls \ DOMAIN calls :
          /\ c = 2 \/ 2 \in DOMAIN calls
          /\ SetCall(c, Local(IF MissingPosition(script[c]) THEN "done" ELSE "savePosition",
                              IF HasCurrentState(current_state, script[c].icao24)
                              THEN <<current_state[script[c].icao24]>> ELSE <<>>,
                              0, NoUpdates))
          /\ obs' = script[c]
    /\ nObs' = nObs + 1
    /\ event' = "CALL"
    /\ raised' = FALSE
    /\ UNCHANGED <<current_state, flights, positions, activeFlights, indexMiss,
                   script, fetchVars, auxVars>>

\* db.savePosition resolves
CallSavePosition ==
    /\ \E c \in RaceCalls :
          /\ At(c, {"savePosition"})
          /\ positions' = savePosition(positions, script[c])
          /\ SetCall(c, Moved(calls[c], "updateCurrentState"))
    /\ UNCHANGED <<current_state, flights, activeFlights, obs, event, raised, nObs,
                   indexMiss, script, fetchVars, auxVars>>

\* db.updateCurrentState resolves
CallUpdateCurrentState ==
    /\ \E c \in RaceCalls :
          /\ At(c, {"updateCurrentState"})
          /\ current_state' = updateCurrentState(current_state, script[c])
          /\ SetCall(c, AfterUpsert(calls[c], script[c], activeFlights))
    /\ UNCHANGED <<flights, positions, activeFlights, obs, event, raised, nObs,
                   indexMiss, script, fetchVars, auxVars>>

\* db.createFlight resolves: activeFlights.set
CallCreateFlight ==
    /\ \E c \in RaceCalls :
          /\ At(c, {"createFlight"})
          /\ flights' = createFlight(flights, script[c].icao24, script[c].lastContact,
                                     script[c].latitude, script[c].longitude,
                                     script[c].altitude)
          /\ activeFlights' = IndexSet(activeFlights, script[c].icao24, Len(flights'))
          /\ SetCall(c, Moved(calls[c], "done"))
    /\ event' = "TAKEOFF"
    /\ UNCHANGED <<current_state, positions, obs, raised, nObs, indexMiss,
                   script, fetchVars, auxVars>>

\* db.getActiveFlight of the Map-miss fallback resolves
CallResolve ==
    /\ \E c \in RaceCalls :
          /\ At(c, {"resolveLanding", "resolveOngoing"})
          /\ \E row \in getActiveFlight(flights, script[c].icao24) :
                IF calls[c].pc = "resolveLanding"
                THEN /\ SetCall(c, IF row = 0 THEN Moved(calls[c], "done")
                                   ELSE [calls[c] EXCEPT !.pc = "readLanding",
                                                         !.flightId = row])
                     /\ activeFlights' = activeFlights
                ELSE /\ SetCall(c, IF row # 0 /\ script[c].onGround # "true"
                                   THEN [calls[c] EXCEPT !.pc = "readOngoing",
                                                         !.flightId = row]
                                   ELSE Moved(calls[c], "done"))
                     /\ activeFlights' = IF row = 0 THEN activeFlights
                                         ELSE IndexSet(activeFlights, script[c].icao24, row)
    /\ UNCHANGED <<current_state, flights, positions, obs, event, raised, nObs,
                   indexMiss, script, fetchVars, auxVars>>

\* `flight = await db.getActiveFlight(icao24)` resolves: the updates are built
\* from the row read; reading a field of a missing row throws
CallReadFlight ==
    /\ \E c \in RaceCalls :
          /\ At(c, {"readLanding", "readOngoing"})
          /\ \E row \in getActiveFlight(flights, script[c].icao24) :
                LET updates ==
                        IF row = 0 THEN NoUpdates
                        ELSE IF calls[c].pc = "readLanding"
                        THEN LandingUpdates(flights[row], script[c],
                                            calls[c].previousState[1])
                        ELSE OngoingUpdates(flights[row], script[c],
                                            calls[c].previousState[1])
                IN /\ SetCall(c, [calls[c] EXCEPT
                                    !.pc = IF row = 0 \/ updates = NoUpdates THEN "done"
                                           ELSE IF @ = "readLanding" THEN "closeFlight"
                                           ELSE "updateFlight",
                                    !.updates = updates])
                   /\ raised' = (row = 0)
    /\ UNCHANGED <<current_state, flights, positions, activeFlights, obs, event, nObs,
                   indexMiss, script, fetchVars, auxVars>>

\* db.updateFlight resolves; after a landing, activeFlights.delete
CallUpdateFlight ==
    /\ \E c \in RaceCalls :
          /\ At(c, {"closeFlight", "updateFlight"})
          /\ flights' = updateFlight(flights, calls[c].flightId, calls[c].updates)
          /\ activeFlights' = IF calls[c].pc = "closeFlight"
                               THEN IndexDelete(activeFlights, script[c].icao24)
                               ELSE activeFlights
          /\ event' = IF calls[c].pc = "closeFlight" THEN "LANDING" ELSE "ONGOING"
          /\ SetCall(c, Moved(calls[c], "done"))
    /\ UNCHANGED <<current_state, positions, obs, raised, nObs, indexMiss,
                   script, fetchVars, auxVars>>

RaceInit ==
    /\ TrackerEmpty /\ script \in RaceScripts
    /\ FetcherIdle /\ AdapterIdle /\ PollIdle /\ TokenIdle /\ LolIdle

RaceNext ==
    \/ RaceFirst \/ CallBegin \/ CallSavePosition \/ CallUpdateCurrentState
    \/ CallCreateFlight \/ CallResolve \/ CallReadFlight \/ CallUpdateFlight

RaceSpec == RaceInit /\ [][RaceNext]_vars

----------------------------------------------------------------------------
(* services/dataFetcher.js *)

\* bound: identifiers in one fetchFleetData request
MaxFleet == 3

\* String.prototype.toLowerCase on the identifiers of the model
ToLowerCase(s) ==
    CASE s = "A1" -> "a1"
      [] s = "B2" -> "b2"
      [] s = "C3" -> "c3"
      [] s = "D4" -> "d4"
      [] OTHER -> s

\* Identifiers as db.addAircraftToUser stores them and getAllTrackedAircraft returns them
TrackedIds == {"a1", "b2", "d4"}
\* The hex codes a source can report; c3 is an aircraft outside the fleet
SourceHexes == <<"a1", "b2", "c3", "d4">>

Range(seq) == {seq[i] : i \in 1..Len(seq)}

\* icao24Array: DISTINCT identifiers, at least one (pollFleetData returns on none)
Requests ==
    {r \in UNION {[1..n -> TrackedIds] : n \in 1..MaxFleet} :
        \A i, j \in 1..Len(r) : i # j => r[i] # r[j]}

Configs == [dump1090 : BOOLEAN, adsbLol : BOOLEAN]

\* Array.prototype.indexOf: 0 stands for -1
IndexOf(seq, x) ==
    IF x \in Range(seq) THEN CHOOSE i \in 1..Len(seq) :
                                  seq[i] = x /\ \A j \in 1..(i - 1) : seq[j] # x
    ELSE 0

\* variant: the resolved identifier stays in the still-missing list
RemoveFromMissing_Kept(missing, icao24) ==
    missing

\* missingAircraft.indexOf(icao24), then splice(index, 1) when index > -1
RemoveFromMissing(missing, icao24) ==
    LET index == IndexOf(missing, icao24)
    IN IF index > 0
       THEN SubSeq(missing, 1, index - 1) \o SubSeq(missing, index + 1, Len(missing))
       ELSE missing

\* results.set(aircraft.icao24, aircraft) on a Map kept in insertion order
MapSet(map, aircraft) ==
    IF \E i \in 1..Len(map) : map[i].icao24 = aircraft.icao24
    THEN [i \in 1..Len(map) |->
            IF map[i].icao24 = aircraft.icao24 THEN aircraft ELSE map[i]]
    ELSE Append(map, aircraft)

\* The record an adapter builds: its identifier and its provenance
\* (parseStateVector sets no source field)
Aircraft(hex, source) == [icao24 |-> ToLowerCase(hex), source |-> source]

\* How a source call ends: it returns a list of aircraft or it throws
Returned(aircraft) == [threw |-> FALSE, aircraft |-> aircraft]
Thrown == [threw |-> TRUE, aircraft |-> <<>>]

\* The try block of fetchFromDump1090: fetch rejects on a transport error, a
\* non-ok status returns no aircraft, response.json() or data.aircraft.filter
\* throws on a malformed body, otherwise the fleet's aircraft are parsed
Dump1090Try(ids, response) ==
    CASE response.failure = "transport" -> Thrown
      [] response.failure = "status" -> Returned(<<>>)
      [] response.failure = "malformed" -> Thrown
      [] OTHER ->
           LET icao24Set == {ToLowerCase(i) : i \in Range(ids)}
               fleetAircraft == SelectSeq(response.aircraft,
                                          LAMBDA hex : ToLowerCase(hex) \in icao24Set)
           IN Returned([i \in 1..Len(fleetAircraft) |->
                           Aircraft(fleetAircraft[i], "dump1090-fa")])

\* variant: no catch around the request, an exception leaves the function
fetchFromDump1090_Uncaught(ids, response) ==
    Dump1090Try(ids, response)

\* fetchFromDump1090: the response lists every aircraft the receiver sees;
\* the catch turns every exception into an empty list
fetchFromDump1090(ids, response) ==
    LET body == Dump1090Try(ids, response)
    IN IF body.threw THEN Returned(<<>>) ELSE body

\* How one request of fetchFromAdsbLol ends: an aircraft, null, or an exception
Found(aircraft) == [threw |-> FALSE, null |-> FALSE, aircraft |-> aircraft]
NotFound == [threw |-> FALSE, null |-> TRUE, aircraft |-> Aircraft("", "adsb.lol")]
Rejected == [threw |-> TRUE, null |-> TRUE, aircraft |-> Aircraft("", "adsb.lol")]

\* The try block of one request: fetch rejects on a transport error, 404 and
\* every other non-ok status return null, response.json() throws on a
\* malformed body, a body without hex returns null
AdsbLolTry(icao24, answer) ==
    CASE answer = "transport" -> Rejected
      [] answer = "not_found" -> NotFound
      [] answer = "status" -> NotFound
      [] answer = "malformed" -> Rejected
      [] answer = "no_hex" -> NotFound
      [] OTHER -> Found(Aircraft(icao24, "adsb.lol"))

\* variant: no catch inside the request, an exception rejects its promise
AdsbLolRequest_Uncaught(icao24, answer) ==
    AdsbLolTry(icao24, answer)

\* One request of fetchFromAdsbLol: the inner catch turns an exception into null
AdsbLolRequest(icao24, answer) ==
    LET body == AdsbLolTry(icao24, answer)
    IN IF body.threw THEN NotFound ELSE body

\* Promise.all, the filter and the outer catch of fetchFromAdsbLol, on the
\* settled requests listed in the order of the identifiers
AdsbLolCollect(settled) ==
    IF \E i \in 1..Len(settled) : settled[i].threw
    THEN Returned(<<>>)
    ELSE LET foundAircraft == SelectSeq(settled, LAMBDA r : ~r.null)
         IN Returned([i \in 1..Len(foundAircraft) |-> foundAircraft[i].aircraft])

\* fetchFromAdsbLol: one request per identifier, answers[id] is what the
\* source answers to the request of id
fetchFromAdsbLol(ids, answers) ==
    AdsbLolCollect([i \in 1..Len(ids) |-> AdsbLolRequest(ids[i], answers[ids[i]])])

\* parseInt of the X-Rate-Limit-Retry-After-Seconds header ("" when absent)
ParseInt(header) ==
    CASE header = "0" -> 0
      [] header = "30" -> 30
      [] OTHER -> NaN

\* What fetchFleetStates returns; an error result has no aircraft field
StatesResult(error, retryAfter, aircraft) ==
    [threw |-> FALSE, error |-> error, retryAfter |-> retryAfter, aircraft |-> aircraft]
StatesThrown == [threw |-> TRUE, error |-> "", retryAfter |-> Undef, aircraft |-> <<>>]

\* variant: a 429 answer is thrown instead of returned
StatesTry_RateLimitThrows(ids, response) ==
    CASE response.failure = "transport" -> StatesThrown
      [] response.status = 429 -> StatesThrown
      [] response.status # 200 -> StatesResult("api_error", Undef, <<>>)
      [] response.failure = "malformed" -> StatesThrown
      [] OTHER ->
           LET states == SelectSeq(ids, LAMBDA id : id \in response.states)
           IN StatesResult("", Undef,
                  [i \in 1..Len(states) |-> Aircraft(states[i], "undefined")])

\* The try block of OpenSkyClient.fetchFleetStates: fetch rejects on a
\* transport error, 429 returns the rate-limit result, another non-ok status
\* the api error, response.json() or data.states.map throws on a malformed
\* body, otherwise the state vectors are parsed
StatesTry(ids, response) ==
    CASE response.failure = "transport" -> StatesThrown
      [] response.status = 429 ->
           StatesResult("rate_limit", ParseInt(response.retryAfter), <<>>)
      [] response.status # 200 -> StatesResult("api_error", Undef, <<>>)
      [] response.failure = "malformed" -> StatesThrown
      [] OTHER ->
           LET states == SelectSeq(ids, LAMBDA id : id \in response.states)
           IN StatesResult("", Undef,
                  [i \in 1..Len(states) |-> Aircraft(states[i], "undefined")])

\* OpenSkyClient.fetchFleetStates: the catch turns every exception into the
\* network error result
fetchFleetStates(ids, response) ==
    LET body == StatesTry(ids, response)
    IN IF body.threw THEN StatesResult("network_error", Undef, <<>>) ELSE body

\* One iteration of the forEach of the dump1090 and adsb.lol stages
MergeResolved(acc, aircraft) ==
    [results |-> MapSet(acc.results, aircraft),
     count |-> acc.count + 1,
     missing |-> RemoveFromMissing(acc.missing, aircraft.icao24)]

\* variant: the OpenSky record is stored but not counted
MergeFallback_Uncounted(acc, aircraft) ==
    [results |-> MapSet(acc.results, aircraft),
     count |-> acc.count,
     missing |-> acc.missing]

\* One iteration of the forEach of the OpenSky stage
MergeFallback(acc, aircraft) ==
    [results |-> MapSet(acc.results, aircraft),
     count |-> acc.count + 1,
     missing |-> acc.missing]

RECURSIVE ForEachResolved(_, _)
ForEachResolved(acc, list) ==
    IF list = <<>> THEN acc
    ELSE ForEachResolved(MergeResolved(acc, Head(list)), Tail(list))

RECURSIVE ForEachFallback(_, _)
ForEachFallback(acc, list) ==
    IF list = <<>> THEN acc
    ELSE ForEachFallback(MergeFallback(acc, Head(list)), Tail(list))

\* the conditions under which each source is called
QueriesDump1090(cfg) == cfg.dump1090
QueriesAdsbLol(missing, cfg) == Len(missing) > 0 /\ cfg.adsbLol
\* variant: OpenSky is called whatever is still missing
QueriesOpenSky_Always(missing) == TRUE
QueriesOpenSky(missing) == Len(missing) > 0

\* What the sources can answer
Dump1090Failures == {"none", "transport", "status", "malformed"}
Dump1090Responses ==
    {[failure |-> f, aircraft |-> SelectSeq(SourceHexes, LAMBDA hex : hex \in seen)] :
        f \in Dump1090Failures, seen \in SUBSET Range(SourceHexes)}
AdsbLolAnswers == {"found", "not_found", "status", "transport", "malformed", "no_hex"}
AdsbLolResponses(ids) == [Range(ids) -> AdsbLolAnswers]
OpenSkyErrors == {"rate_limit", "api_error", "network_error"}
RetryAfterHeaders == {"", "0", "30"}
OpenSkyResponses(ids) ==
    {[failure |-> "none", status |-> 200, retryAfter |-> "", states |-> found] :
        found \in SUBSET Range(ids)}
    \cup {[failure |-> "none", status |-> 429, retryAfter |-> h, states |-> {}] :
            h \in RetryAfterHeaders}
    \cup {[failure |-> "none", status |-> st, retryAfter |-> "", states |-> {}] :
            st \in {404, 500}}
    \cup {[failure |-> f, status |-> 200, retryAfter |-> "", states |-> {}] :
            f \in {"transport", "malformed"}}

Sources(c) == [local |-> c.local, adsbLol |-> c.adsbLol, opensky |-> c.opensky]

\* variant: the error result carries no aircraft
ErrorResult_Bare(error, map, c) ==
    [error |-> error, aircraft |-> <<>>, sources |-> Sources(c)]

\* the object returned when OpenSky reported an error
ErrorResult(error, map, c) ==
    [error |-> error, aircraft |-> map, sources |-> Sources(c)]

\* the object returned otherwise
Result(map, c) == [error |-> "", aircraft |-> map, sources |-> Sources(c)]

\* variant: a rate-limited states request is sent again
AfterOpenSky_Retry(openskyData) ==
    IF openskyData.error = "rate_limit" THEN "opensky" ELSE "done"

\* where fetchFleetData goes after the OpenSky stage: it returns
AfterOpenSky(openskyData) ==
    "done"

\* A call of a source, as logged in `queries`: what it was asked, what the
\* source answered, what the call gave back
Query(source, ids, answer, data, resolvedBefore) ==
    [source |-> source, ids |-> ids, answer |-> answer, data |-> data,
     found |-> [i \in 1..Len(data.aircraft) |-> data.aircraft[i].icao24],
     resolvedBefore |-> resolvedBefore]

Keys(map) == {map[i].icao24 : i \in 1..Len(map)}

\* fetchFleetData, up to the dump1090 stage
FetchStart ==
    /\ fpc = "idle"
    /\ icao24Array' \in Requests
    /\ config' \in Configs
    /\ results' = <<>>
    /\ missingAircraft' = icao24Array'
    /\ counts' = [local |-> 0, adsbLol |-> 0, opensky |-> 0]
    /\ queries' = <<>>
    /\ returned' = [error |-> "", aircraft |-> <<>>, sources |-> Sources(counts')]
    /\ fpc' = "dump1090"
    /\ UNCHANGED <<trackVars, script, auxVars>>

\* the dump1090 stage; an exception of the source call leaves fetchFleetData
FetchLocal ==
    /\ fpc = "dump1090"
    /\ IF QueriesDump1090(config)
       THEN \E response \in Dump1090Responses :
              LET localData == fetchFromDump1090(icao24Array, response)
                  acc == ForEachResolved([results |-> results, count |-> counts.local,
                                          missing |-> missingAircraft], localData.aircraft)
              IN /\ results' = acc.results
                 /\ counts' = [counts EXCEPT !.local = acc.count]
                 /\ missingAircraft' = acc.missing
                 /\ queries' = Append(queries,
                        Query("dump1090-fa", icao24Array, response.failure, localData,
                              Keys(results)))
                 /\ fpc' = IF localData.threw THEN "raised" ELSE "adsbLol"
       ELSE /\ UNCHANGED <<results, counts, missingAircraft, queries>>
            /\ fpc' = "adsbLol"
    /\ UNCHANGED <<icao24Array, config, returned, trackVars, script, auxVars>>

\* the adsb.lol stage
FetchAdsbLol ==
    /\ fpc = "adsbLol"
    /\ IF QueriesAdsbLol(missingAircraft, config)
       THEN \E answers \in AdsbLolResponses(missingAircraft) :
              LET adsbLolData == fetchFromAdsbLol(missingAircraft, answers)
                  acc == ForEachResolved([results |-> results, count |-> counts.adsbLol,
                                          missing |-> missingAircraft],
                                         adsbLolData.aircraft)
              IN /\ results' = acc.results
                 /\ counts' = [counts EXCEPT !.adsbLol = acc.count]
                 /\ missingAircraft' = acc.missing
                 /\ queries' = Append(queries,
                        Query("adsb.lol", missingAircraft, answers, adsbLolData,
                              Keys(results)))
                 /\ fpc' = IF adsbLolData.threw THEN "raised" ELSE "opensky"
       ELSE /\ UNCHANGED <<results, counts, missingAircraft, queries>>
            /\ fpc' = "opensky"
    /\ UNCHANGED <<icao24Array, config, returned, trackVars, script, auxVars>>

\* the OpenSky stage and the return
FetchOpenSky ==
    /\ fpc = "opensky"
    /\ IF QueriesOpenSky(missingAircraft)
       THEN \E response \in OpenSkyResponses(missingAircraft) :
              LET openskyData == fetchFleetStates(missingAircraft, response)
                  acc == ForEachFallback([results |-> results, count |-> counts.opensky,
                                          missing |-> missingAircraft],
                                         openskyData.aircraft)
              IN /\ results' = acc.results
                 /\ counts' = [counts EXCEPT !.opensky = acc.count]
                 /\ queries' = Append(queries,
                        Query("opensky", missingAircraft, response, openskyData,
                              Keys(results)))
                 /\ returned' =
                        CASE openskyData.threw -> returned
                          [] openskyData.error # "" ->
                               ErrorResult(openskyData.error, results', counts')
                          [] OTHER -> Result(results', counts')
                 /\ fpc' = IF openskyData.threw THEN "raised"
                           ELSE AfterOpenSky(openskyData)
       ELSE /\ UNCHANGED <<results, counts, queries>>
            /\ returned' = Result(results, counts)
            /\ fpc' = "done"
    /\ UNCHANGED <<icao24Array, config, missingAircraft, trackVars, script, auxVars>>

\* pollFleetData has the result (or the exception); the next cycle calls again
FetchReturn ==
    /\ fpc \in {"done", "raised"}
    /\ icao24Array' = <<>>
    /\ config' = [dump1090 |-> FALSE, adsbLol |-> FALSE]
    /\ fpc' = "idle"
    /\ results' = <<>>
    /\ missingAircraft' = <<>>
    /\ counts' = [local |-> 0, adsbLol |-> 0, opensky |-> 0]
    /\ queries' = <<>>
    /\ returned' = Result(<<>>, counts')
    /\ UNCHANGED <<trackVars, script, auxVars>>

FetchInit ==
    TrackerEmpty /\ script = <<>> /\ FetcherIdle /\ AdapterIdle /\ PollIdle /\ TokenIdle /\ LolIdle

FetchNext == FetchStart \/ FetchLocal \/ FetchAdsbLol \/ FetchOpenSky \/ FetchReturn

FetchSpec == FetchInit /\ [][FetchNext]_vars

\* fetchFleetData called with identifiers as a caller may write them, one of
\* them in upper case
MixedCaseIds == {"A1", "b2", "d4"}
MixedCaseRequests ==
    {r \in UNION {[1..n -> MixedCaseIds] : n \in 1..MaxFleet} :
        \A i, j \in 1..Len(r) : i # j => r[i] # r[j]}

FetchStartMixedCase ==
    /\ fpc = "idle"
    /\ icao24Array' \in MixedCaseRequests
    /\ config' \in Configs
    /\ results' = <<>>
    /\ missingAircraft' = icao24Array'
    /\ counts' = [local |-> 0, adsbLol |-> 0, opensky |-> 0]
    /\ queries' = <<>>
    /\ returned' = [error |-> "", aircraft |-> <<>>, sources |-> Sources(counts')]
    /\ fpc' = "dump1090"
    /\ UNCHANGED <<trackVars, script, auxVars>>

MixedCaseNext ==
    FetchStartMixedCase \/ FetchLocal \/ FetchAdsbLol \/ FetchOpenSky \/ FetchReturn

MixedCaseSpec == FetchInit /\ [][MixedCaseNext]_vars

----------------------------------------------------------------------------
(* fetchFromAdsbLol: the concurrent requests of one call *)

\* the indices of the requests that have not settled
LolPending == (1..Len(lolIds)) \ DOMAIN lolSettled

\* icao24Array.map(async ...): every request is sent before any settles
LolStart ==
    /\ lpc = "idle"
    /\ lolIds' \in Requests
    /\ lolAnswers' \in AdsbLolResponses(lolIds')
    /\ lolSettled' = <<>>
    /\ lolOrder' = <<>>
    /\ lolData' = Returned(<<>>)
    /\ lpc' = "waiting"
    /\ UNCHANGED <<trackVars, script, fetchVars, adapterVars, pollVars, tokenVars>>

\* one request settles, in any order; its result takes the place of its
\* identifier in the array Promise.all resolves to
LolSettle ==
    /\ lpc = "waiting"
    /\ \E i \in LolPending :
          /\ lolSettled' =
                [j \in DOMAIN lolSettled \cup {i} |->
                    IF j = i THEN AdsbLolRequest(lolIds[i], lolAnswers[lolIds[i]])
                    ELSE lolSettled[j]]
          /\ lolOrder' = Append(lolOrder, lolIds[i])
    /\ UNCHANGED <<lolIds, lolAnswers, lolData, lpc,
                   trackVars, script, fetchVars, adapterVars, pollVars, tokenVars>>

\* await Promise.all(fetchPromises) continues once every request has settled,
\* or as soon as one has rejected; then the filter and the return
LolCollect ==
    /\ lpc = "waiting"
    /\ \/ LolPending = {}
       \/ \E i \in DOMAIN lolSettled : lolSettled[i].threw
    /\ lolData' = AdsbLolCollect([i \in 1..Len(lolIds) |->
                        IF i \in DOMAIN lolSettled THEN lolSettled[i] ELSE NotFound])
    /\ lpc' = "done"
    /\ UNCHANGED <<lolIds, lolAnswers, lolSettled, lolOrder,
                   trackVars, script, fetchVars, adapterVars, pollVars, tokenVars>>

\* fetchFleetData has the result
LolReturn ==
    /\ lpc = "done"
    /\ lolIds' = <<>>
    /\ lolAnswers' = <<>>
    /\ lolSettled' = <<>>
    /\ lolOrder' = <<>>
    /\ lolData' = Returned(<<>>)
    /\ lpc' = "idle"
    /\ UNCHANGED <<trackVars, script, fetchVars, adapterVars, pollVars, tokenVars>>

LolInit ==
    /\ LolIdle
    /\ TrackerEmpty /\ script = <<>> /\ FetcherIdle /\ AdapterIdle /\ PollIdle /\ TokenIdle

LolNext == LolStart \/ LolSettle \/ LolCollect \/ LolReturn

LolSpec == LolInit /\ [][LolNext]_vars

----------------------------------------------------------------------------
(* The source adapters: from a source's aircraft object to the stored flag *)
(* Altitudes in 1/10000 m, speeds in 1/1000000 m/s.                        *)

\* the string 'ground' in an altitude field
Ground == -3

\* aircraft.altitude * 0.3048
FeetToMetres(ft) == ft * 3048
\* aircraft.speed * 0.514444
KnotsToMs(kn) == kn * 514444

\* altitudeMeters !== null && altitudeMeters < 50
AltitudeBelow50(altitudeMeters) == altitudeMeters # Null /\ altitudeMeters < 50 * 10000
\* velocityMs !== null && velocityMs < 15
VelocityBelow15(velocityMs) == velocityMs # Null /\ velocityMs < 15 * 1000000

Flag(b) == IF b THEN "true" ELSE "false"

parseDump1090Aircraft(aircraft) ==
    LET altitudeMeters == IF aircraft.altitude # Undef
                          THEN FeetToMetres(aircraft.altitude) ELSE Null
        velocityMs == IF aircraft.speed # Undef THEN KnotsToMs(aircraft.speed) ELSE Null
        onGround == aircraft.alt_baro = Ground
    IN [source |-> "dump1090-fa", altitude |-> altitudeMeters, velocity |-> velocityMs,
        onGround |-> Flag(onGround \/ (AltitudeBelow50(altitudeMeters)
                                        /\ VelocityBelow15(velocityMs)))]

parseAdsbLolAircraft(data) ==
    LET altitudeMeters == IF data.alt_baro # Undef /\ data.alt_baro # Ground
                          THEN FeetToMetres(data.alt_baro) ELSE Null
        velocityMs == IF data.gs # Undef THEN KnotsToMs(data.gs) ELSE Null
        onGround == data.alt_baro = Ground
    IN [source |-> "adsb.lol", altitude |-> altitudeMeters, velocity |-> velocityMs,
        onGround |-> Flag(onGround \/ (AltitudeBelow50(altitudeMeters)
                                        /\ VelocityBelow15(velocityMs)))]

\* state[7], state[9] and state[8] are passed on as they are
parseStateVector(state) ==
    [source |-> "opensky", altitude |-> state.baro_altitude, velocity |-> state.velocity,
     onGround |-> state.on_ground]

\* What the sources deliver: feet and knots around 50 m (164.04 ft) and
\* 15 m/s (29.16 kt), fields that are absent, the ground sentinel
Dump1090Aircraft ==
    [source : {"dump1090-fa"}, alt_baro : {Ground, Undef, 3000},
     altitude : {Undef, 0, 164, 165}, speed : {Undef, 29, 30}]
AdsbLolAircraft ==
    [source : {"adsb.lol"}, alt_baro : {Ground, Undef, 0, 164, 165},
     gs : {Undef, 0, 29, 30}]
StateVectors ==
    [source : {"opensky"}, baro_altitude : {Null, 0, 1000000},
     velocity : {Null, 0, 20000000}, on_ground : OnGroundValues]

\* the adapter of the source builds the record
Parse ==
    /\ apc = "received"
    /\ canonical' = CASE raw.source = "dump1090-fa" -> parseDump1090Aircraft(raw)
                      [] raw.source = "adsb.lol" -> parseAdsbLolAircraft(raw)
                      [] raw.source = "opensky" -> parseStateVector(raw)
    /\ apc' = "parsed"
    /\ UNCHANGED <<raw, stored, trackVars, script, fetchVars, pollVars, tokenVars, lolVars>>

\* processAircraftState writes the record's flag: savePosition, updateCurrentState
Store ==
    /\ apc = "parsed"
    /\ stored' = OnGroundColumn(canonical.onGround)
    /\ apc' = "stored"
    /\ UNCHANGED <<raw, canonical, trackVars, script, fetchVars, pollVars, tokenVars, lolVars>>

AdapterInit ==
    /\ raw \in Dump1090Aircraft \cup AdsbLolAircraft \cup StateVectors
    /\ canonical = [source |-> "none"]
    /\ stored = Null
    /\ apc = "received"
    /\ TrackerEmpty /\ script = <<>> /\ FetcherIdle /\ PollIdle /\ TokenIdle /\ LolIdle

AdapterNext == Parse \/ Store

AdapterSpec == AdapterInit /\ [][AdapterNext]_vars

----------------------------------------------------------------------------
(* server.js: the scheduling of pollFleetData *)

\* bound: pollFleetData calls in one run
MaxCycles == 5

SetPhase(i, phase) == cycles' = [cycles EXCEPT ![i] = phase]

\* startServer: await pollFleetData(), the initial poll
StartServer ==
    /\ cycles = <<>>
    /\ ~timer
    /\ cycles' = <<"tracked">>
    /\ UNCHANGED <<timer, trackVars, script, fetchVars, adapterVars, tokenVars, lolVars>>

\* startServer: setInterval(pollFleetData, pollInterval), once the initial poll returned
InstallTimer ==
    /\ ~timer
    /\ Len(cycles) = 1
    /\ cycles[1] = "done"
    /\ timer' = TRUE
    /\ UNCHANGED <<cycles, trackVars, script, fetchVars, adapterVars, tokenVars, lolVars>>

\* the interval elapses: the timer calls pollFleetData
TimerFires ==
    /\ timer
    /\ Len(cycles) < MaxCycles
    /\ cycles' = Append(cycles, "tracked")
    /\ UNCHANGED <<timer, trackVars, script, fetchVars, adapterVars, tokenVars, lolVars>>

\* db.getAllTrackedAircraft() resolves: return when nothing is tracked, else fetch
PollTracked ==
    /\ \E i \in 1..Len(cycles) :
          /\ cycles[i] = "tracked"
          /\ \E phase \in {"fetching", "done"} : SetPhase(i, phase)
    /\ UNCHANGED <<timer, trackVars, script, fetchVars, adapterVars, tokenVars, lolVars>>

\* dataFetcher.fetchFleetData resolves: process the records, or return when
\* there are none or the call threw
PollFetched ==
    /\ \E i \in 1..Len(cycles) :
          /\ cycles[i] = "fetching"
          /\ \E phase \in {"processing", "done"} : SetPhase(i, phase)
    /\ UNCHANGED <<timer, trackVars, script, fetchVars, adapterVars, tokenVars, lolVars>>

\* the for loop over result.aircraft ends, or a processAircraftState call threw
PollProcessed ==
    /\ \E i \in 1..Len(cycles) :
          /\ cycles[i] = "processing"
          /\ SetPhase(i, "done")
    /\ UNCHANGED <<timer, trackVars, script, fetchVars, adapterVars, tokenVars, lolVars>>

PollInit ==
    /\ PollIdle
    /\ TrackerEmpty /\ script = <<>> /\ FetcherIdle /\ AdapterIdle /\ TokenIdle /\ LolIdle

PollNext ==
    StartServer \/ InstallTimer \/ TimerFires \/ PollTracked \/ PollFetched \/ PollProcessed

PollSpec == PollInit /\ [][PollNext]_vars

----------------------------------------------------------------------------
(* server.js: the loop of pollFleetData over the records of one snapshot *)

\* <<altitude, velocity, heading>> of the records of a snapshot
SnapshotKinematics == {<<5, 2, 90>>, <<100, 20, 270>>}

SnapshotRecords ==
    {Observation(v, 1000, <<1, 1>>, k, og) :
        v \in Vehicles, k \in SnapshotKinematics, og \in {"true", "false"}}

\* result.aircraft: one record per vehicle resolved
Snapshots ==
    {r \in UNION {[1..n -> SnapshotRecords] : n \in 1..Cardinality(Vehicles)} :
        \A i, j \in 1..Len(r) : i # j => r[i].icao24 # r[j].icao24}

CycleRunning == cycles # <<>> /\ cycles[Len(cycles)] = "processing"

\* pollFleetData is called and fetchFleetData resolved with records
CycleStart ==
    /\ ~CycleRunning
    /\ Len(cycles) < MaxCycles
    /\ \E snapshot \in Snapshots :
          /\ nObs + Len(snapshot) <= MaxObs
          /\ script' = snapshot
          /\ returned' = [returned EXCEPT !.aircraft = snapshot]
    /\ cycles' = Append(cycles, "processing")
    /\ UNCHANGED <<trackVars, icao24Array, config, fpc, results, missingAircraft, counts,
                   queries, timer, adapterVars, tokenVars, lolVars>>

\* for (const aircraftData of result.aircraft) await tracker.processAircraftState:
\* a call that throws leaves the loop for the catch block of pollFleetData
CycleProcess ==
    /\ CycleRunning
    /\ script # <<>>
    /\ Process(Head(script))
    /\ script' = Tail(script)
    /\ cycles' = IF raised' THEN [cycles EXCEPT ![Len(cycles)] = "caught"] ELSE cycles
    /\ UNCHANGED <<fetchVars, timer, adapterVars, tokenVars, lolVars>>

\* the store rejects db.getCurrentState, the first query of a
\* processAircraftState call: the call throws before it wrote anything
CycleStoreFails ==
    /\ CycleRunning
    /\ script # <<>>
    /\ ~MissingPosition(Head(script))
    /\ obs' = Head(script)
    /\ event' = "STORE_ERROR"
    /\ raised' = TRUE
    /\ nObs' = nObs + 1
    /\ indexMiss' = FALSE
    /\ script' = Tail(script)
    /\ cycles' = [cycles EXCEPT ![Len(cycles)] = "caught"]
    /\ UNCHANGED <<current_state, flights, positions, activeFlights, calls, fetchVars, timer,
                   adapterVars, tokenVars, lolVars>>

\* the loop ran out of records: pollFleetData returns
CycleReturn ==
    /\ CycleRunning
    /\ script = <<>>
    /\ cycles' = [cycles EXCEPT ![Len(cycles)] = "done"]
    /\ UNCHANGED <<trackVars, script, fetchVars, timer, adapterVars, tokenVars, lolVars>>

CycleNext == CycleStart \/ CycleProcess \/ CycleStoreFails \/ CycleReturn

CycleSpec == PollInit /\ [][CycleNext]_vars

----------------------------------------------------------------------------
(* unnamed/part_002: the OAuth token cache of OpenSkyClient *)

\* bound: seconds of Date.now() explored
MaxClock == 6
\* bound: token requests sent in one run
MaxTokenRequests == 3

\* data.expires_in of a token response, in seconds: lifetimes below and just
\* above the 300 s taken off
ExpiresIn == {200, 302, 304}

\* variant: the token is taken to expire 600 s before its declared lifetime
TokenExpiry_Early(now, expires_in) == now * 1000 + (expires_in - 600) * 1000

\* Date.now() + ((data.expires_in - 300) * 1000), now in seconds
TokenExpiry(now, expires_in) == now * 1000 + (expires_in - 300) * 1000

\* this.accessToken && this.tokenExpiry && Date.now() < this.tokenExpiry
CachedTokenValid(token, expiry, now) ==
    Truthy(token) /\ Truthy(expiry) /\ now * 1000 < expiry

\* variant: a failed token request leaves an unusable token in the cache
TokenResponse_CachesFailure(token, expiry, now, response) ==
    IF response.ok
    THEN [accessToken |-> response.access_token,
          tokenExpiry |-> TokenExpiry(now, response.expires_in),
          returns |-> response.access_token]
    ELSE [accessToken |-> Null, tokenExpiry |-> Null, returns |-> Null]

\* getAccessToken after the token request: a non-ok status or a transport
\* error returns null, a token response is cached
TokenResponse(token, expiry, now, response) ==
    IF response.ok
    THEN [accessToken |-> response.access_token,
          tokenExpiry |-> TokenExpiry(now, response.expires_in),
          returns |-> response.access_token]
    ELSE [accessToken |-> token, tokenExpiry |-> expiry, returns |-> Null]

TokenResponses(id) ==
    {[ok |-> TRUE, access_token |-> id, expires_in |-> e] : e \in ExpiresIn}
    \cup {[ok |-> FALSE, access_token |-> Null, expires_in |-> Null]}

StatesResults == {"ok", "rate_limit", "api_error", "network_error"}

\* Date.now() advances
Tick ==
    /\ clock < MaxClock
    /\ clock' = clock + 1
    /\ UNCHANGED <<credentials, accessToken, tokenExpiry, granted, tpc, tokenRequests,
                   outcome, trackVars, script, fetchVars, adapterVars, pollVars, lolVars>>

\* fetchFleetStates calls getAccessToken: the cached token is still valid
CallCached ==
    /\ tpc = "idle"
    /\ CachedTokenValid(accessToken, tokenExpiry, clock)
    /\ outcome' = [call |-> "cached", token |-> accessToken, states |-> "pending"]
    /\ tpc' = "states_wait"
    /\ UNCHANGED <<clock, credentials, accessToken, tokenExpiry, granted, tokenRequests,
                   trackVars, script, fetchVars, adapterVars, pollVars, lolVars>>

\* fetchFleetStates calls getAccessToken: no valid token and no credentials
CallAnonymous ==
    /\ tpc = "idle"
    /\ ~CachedTokenValid(accessToken, tokenExpiry, clock)
    /\ ~credentials
    /\ outcome' = [call |-> "anonymous", token |-> Null, states |-> "pending"]
    /\ tpc' = "states_wait"
    /\ UNCHANGED <<clock, credentials, accessToken, tokenExpiry, granted, tokenRequests,
                   trackVars, script, fetchVars, adapterVars, pollVars, lolVars>>

\* fetchFleetStates calls getAccessToken: no valid token, a token request is sent
CallRequests ==
    /\ tpc = "idle"
    /\ ~CachedTokenValid(accessToken, tokenExpiry, clock)
    /\ credentials
    /\ tokenRequests < MaxTokenRequests
    /\ tokenRequests' = tokenRequests + 1
    /\ outcome' = [call |-> "requesting", token |-> Null, states |-> "pending"]
    /\ tpc' = "token_wait"
    /\ UNCHANGED <<clock, credentials, accessToken, tokenExpiry, granted,
                   trackVars, script, fetchVars, adapterVars, pollVars, lolVars>>

\* the token request is answered, getAccessToken returns
TokenAnswered ==
    /\ tpc = "token_wait"
    /\ \E response \in TokenResponses(tokenRequests) :
          LET r == TokenResponse(accessToken, tokenExpiry, clock, response)
          IN /\ accessToken' = r.accessToken
             /\ tokenExpiry' = r.tokenExpiry
             /\ granted' = IF response.ok
                           THEN [at |-> clock, expires_in |-> response.expires_in]
                           ELSE granted
             /\ outcome' = [call |-> IF response.ok THEN "granted" ELSE "failed",
                            token |-> r.returns, states |-> "pending"]
    /\ tpc' = "states_wait"
    /\ UNCHANGED <<clock, credentials, tokenRequests,
                   trackVars, script, fetchVars, adapterVars, pollVars, lolVars>>

\* the states request is answered, fetchFleetStates returns
StatesAnswered ==
    /\ tpc = "states_wait"
    /\ \E result \in StatesResults : outcome' = [outcome EXCEPT !.states = result]
    /\ tpc' = "idle"
    /\ UNCHANGED <<clock, credentials, accessToken, tokenExpiry, granted, tokenRequests,
                   trackVars, script, fetchVars, adapterVars, pollVars, lolVars>>

TokenInit ==
    /\ clock = 0
    /\ credentials \in BOOLEAN
    /\ accessToken = Null
    /\ tokenExpiry = Null
    /\ granted = [at |-> Null, expires_in |-> Null]
    /\ tpc = "idle"
    /\ tokenRequests = 0
    /\ outcome = [call |-> "none", token |-> Null, states |-> "none"]
    /\ TrackerEmpty /\ script = <<>> /\ FetcherIdle /\ AdapterIdle /\ PollIdle /\ LolIdle

TokenNext ==
    Tick \/ CallCached \/ CallAnonymous \/ CallRequests \/ TokenAnswered \/ StatesAnswered

TokenSpec == TokenInit /\ [][TokenNext]_vars

----------------------------------------------------------------------------
(* Properties of the fusion fetcher *)

Priority(source) ==
    CASE source = "dump1090-fa" -> 1
      [] source = "adsb.lol" -> 2
      [] source = "opensky" -> 3

\* the source field of the records a source delivers
SourceTag(source) == IF source = "opensky" THEN "undefined" ELSE source

Resolvers(icao24) == {i \in 1..Len(queries) : icao24 \in Range(queries[i].found)}

ResolvedBefore(j) == UNION {Range(queries[i].found) : i \in 1..(j - 1)}

KeepsFirstResolver(map) ==
    \A k \in 1..Len(map) :
        \E i \in Resolvers(map[k].icao24) :
            /\ \A h \in Resolvers(map[k].icao24) : Priority(queries[i].source)
                                                     <= Priority(queries[h].source)
            /\ map[k].source = SourceTag(queries[i].source)

OpenSkyQueries == {i \in 1..Len(queries) : queries[i].source = "opensky"}

\* the records of the map are those the sources before OpenSky resolved
OnlyHigherPriority(map, q) ==
    /\ Keys(map) = q.resolvedBefore
    /\ Len(map) = Cardinality(q.resolvedBefore)
    /\ \A k \in 1..Len(map) : map[k].source \in {"dump1090-fa", "adsb.lol"}

\* C21: when OpenSky answers 429 the client returns, without throwing, the
\* rate-limit result with the number parsed from the retry-after header (NaN
\* when the header is absent), and fetchFleetData returns no record of
\* OpenSky, the rate_limit error and the records resolved by dump1090 and
\* adsb.lol.
C21_RateLimited ==
    \A i \in OpenSkyQueries :
        (queries[i].answer.failure = "none" /\ queries[i].answer.status = 429) =>
            /\ ~queries[i].data.threw
            /\ queries[i].data.error = "rate_limit"
            /\ queries[i].answer.retryAfter = "30" => queries[i].data.retryAfter = 30
            /\ queries[i].answer.retryAfter = "0" => queries[i].data.retryAfter = 0
            /\ queries[i].answer.retryAfter = "" => queries[i].data.retryAfter = NaN
            /\ queries[i].found = <<>>
            /\ fpc = "done"
            /\ returned.error = "rate_limit"
            /\ returned.sources.opensky = 0
            /\ OnlyHigherPriority(returned.aircraft, queries[i])

\* dump1090 and adsb.lol resolved one vehicle each, OpenSky answered 429 with
\* a retry-after of 30 s for the third
C21_Witness ==
    /\ fpc = "done"
    /\ Len(queries) = 3
    /\ queries[3].answer.status = 429
    /\ queries[3].data.retryAfter = 30
    /\ returned.error = "rate_limit"
    /\ Len(returned.aircraft) = 2
    /\ returned.sources = [local |-> 1, adsbLol |-> 1, opensky |-> 0]

\* C22: a fetchFleetData call sends at most one states request to OpenSky,
\* whatever the request returns.
C22_NoRetry ==
    Cardinality(OpenSkyQueries) <= 1

\* the only source called was OpenSky, its request failed on the network, and
\* fetchFleetData has returned
C22_Witness ==
    /\ fpc = "done"
    /\ Len(queries) = 1
    /\ queries[1].source = "opensky"
    /\ queries[1].answer.failure = "transport"
    /\ returned.error = "network_error"

\* C23: when OpenSky returns an error, fetchFleetData returns that error with
\* the map as it was before the OpenSky stage and with the three counts.
C23_FallbackErrorKeepsResolved ==
    [][(fpc = "opensky" /\ fpc' = "done" /\ returned'.error # "") =>
            /\ Len(queries') = Len(queries) + 1
            /\ returned'.error = queries'[Len(queries')].data.error
            /\ returned'.aircraft = results
            /\ OnlyHigherPriority(returned'.aircraft, queries'[Len(queries')])
            /\ returned'.sources = Sources(counts)
            /\ returned'.sources.local + returned'.sources.adsbLol = Len(results)
            /\ returned'.sources.opensky = 0]_vars

\* OpenSky answered with a server error after dump1090 had resolved two
\* vehicles of three
C23_Witness ==
    /\ fpc = "done"
    /\ returned.error = "api_error"
    /\ returned.sources = [local |-> 2, adsbLol |-> 0, opensky |-> 0]
    /\ Len(returned.aircraft) = 2
    /\ Len(icao24Array) = 3

\* the answer made the call of the source fail as a whole
SourceFailed(q) ==
    CASE q.source = "dump1090-fa" -> q.answer # "none"
      [] q.source = "opensky" -> q.answer.failure # "none" \/ q.answer.status # 200
      [] OTHER -> FALSE

\* the identifiers of an adsb.lol call whose own request did not return the aircraft
AdsbLolFailed(q) ==
    IF q.source = "adsb.lol" THEN {id \in Range(q.ids) : q.answer[id] # "found"} ELSE {}

Called == {queries[i].source : i \in 1..Len(queries)}

\* C24: fetchFleetData never throws; a source whose request failed (transport
\* error, non-2xx status, malformed body, rate limit) contributes no record;
\* the sources after it are called as if it had resolved nothing, and the
\* function returns a result.
C24_NeverRaises ==
    /\ fpc # "raised"
    /\ \A i \in 1..Len(queries) :
          /\ ~queries[i].data.threw
          /\ SourceFailed(queries[i]) => queries[i].found = <<>>
          /\ Range(queries[i].found) \cap AdsbLolFailed(queries[i]) = {}
    /\ fpc \in {"adsbLol", "opensky", "done"} => (config.dump1090 <=> "dump1090-fa" \in Called)
    /\ fpc \in {"opensky", "done"} =>
          ("adsb.lol" \in Called <=>
               (config.adsbLol /\ \E id \in Range(icao24Array) :
                    \A i \in 1..Len(queries) :
                        queries[i].source = "dump1090-fa" => id \notin Range(queries[i].found)))
    /\ fpc = "done" =>
          /\ "opensky" \in Called <=>
                 \E id \in Range(icao24Array) :
                    \A i \in 1..Len(queries) :
                        queries[i].source # "opensky" => id \notin Range(queries[i].found)
          /\ returned.sources = Sources(counts)
          /\ returned.aircraft = results

\* all three sources were called and all three failed: dump1090 on the
\* network, adsb.lol with a malformed body and a server error, OpenSky with
\* a malformed body
C24_Witness ==
    /\ fpc = "done"
    /\ Len(queries) = 3
    /\ Len(icao24Array) = 2
    /\ queries[1].answer = "transport"
    /\ {queries[2].answer[id] : id \in Range(queries[2].ids)} = {"malformed", "status"}
    /\ queries[3].answer.failure = "malformed"
    /\ returned.aircraft = <<>>
    /\ returned.error = "network_error"

\* the identifiers whose own request returned the aircraft
LolSucceeded == {id \in Range(lolIds) : lolAnswers[id] = "found"}

\* C25: fetchFromAdsbLol sends one request per identifier, and whatever the
\* order in which the requests settle and whichever of them fail or answer
\* 404, it returns the aircraft of exactly the identifiers whose own request
\* succeeded, once each, in the order of the identifiers.
C25_PerVehicleFailures ==
    lpc = "done" =>
        /\ Len(lolOrder) = Len(lolIds)
        /\ Range(lolOrder) = Range(lolIds)
        /\ ~lolData.threw
        /\ {lolData.aircraft[k].icao24 : k \in 1..Len(lolData.aircraft)} = LolSucceeded
        /\ Len(lolData.aircraft) = Cardinality(LolSucceeded)
        /\ \A k \in 1..Len(lolData.aircraft) : lolData.aircraft[k].source = "adsb.lol"
        /\ lolData = fetchFromAdsbLol(lolIds, lolAnswers)

\* three requests settled in the reverse of the order they were sent: the
\* first failed on the network, the second answered 404, the third succeeded
C25_Witness ==
    /\ lpc = "done"
    /\ Len(lolIds) = 3
    /\ lolOrder = <<lolIds[3], lolIds[2], lolIds[1]>>
    /\ lolAnswers[lolIds[1]] = "transport"
    /\ lolAnswers[lolIds[2]] = "not_found"
    /\ lolAnswers[lolIds[3]] = "found"
    /\ Len(lolData.aircraft) = 1

\* C31 as claimed: identifiers are compared without regard to case: a source
\* is never asked for an identifier an earlier source resolved, before the
\* OpenSky stage no identifier of the still-missing list is in the map, and the
\* snapshot holds each vehicle once.
C31_CaseInsensitiveIds ==
    /\ \A j \in 1..Len(queries) :
          \A id \in Range(queries[j].ids) :
              ToLowerCase(id) \notin queries[j].resolvedBefore
    /\ fpc \in {"adsbLol", "opensky"} =>
          \A id \in Range(missingAircraft) : ToLowerCase(id) \notin Keys(results)
    /\ fpc = "done" =>
          \A h, k \in 1..Len(returned.aircraft) :
              h # k => returned.aircraft[h].icao24 # returned.aircraft[k].icao24

----------------------------------------------------------------------------
(* Properties of the flight state machine *)

\* A step that is one processAircraftState call
ProcessStep == nObs' = nObs + 1

HasPosition(o) == o.latitude # Null /\ o.longitude # Null

\* on-ground = false, altitude > 50 m, speed > 15 m/s
ClearsTakeoffThresholds(o) ==
    /\ o.altitude # Null /\ o.altitude > 50
    /\ o.velocity # Null /\ o.velocity > 15

\* The flight row a takeoff at record o creates
TakeoffRow(o) ==
    [icao24 |-> o.icao24, takeoff_time |-> o.lastContact, landing_time |-> Null,
     takeoff_latitude |-> o.latitude, takeoff_longitude |-> o.longitude,
     landing_latitude |-> Null, landing_longitude |-> Null,
     max_altitude |-> o.altitude, distance_km |-> Null, duration_seconds |-> Null]

\* The step adds exactly one flight row, the takeoff row of o, and indexes it
OpensFlightFor(o) ==
    /\ flights' = Append(flights, TakeoffRow(o))
    /\ o.icao24 \in DOMAIN activeFlights'
    /\ activeFlights'[o.icao24] = Len(flights) + 1

\* C4: with a persisted on-ground state, a located record that is airborne and
\* clears both thresholds opens exactly one flight with the record's time,
\* position and altitude and indexes it; with a persisted state and any of the
\* conditions failing, the call creates no flight.
C4_Takeoff ==
    [][(ProcessStep /\ HasPosition(obs') /\ obs'.icao24 \in DOMAIN current_state)
       => IF /\ current_state[obs'.icao24].on_ground = 1
             /\ obs'.onGround = "false"
             /\ ClearsTakeoffThresholds(obs')
          THEN OpensFlightFor(obs')
          ELSE Len(flights') = Len(flights)]_vars

C4_Witness ==
    /\ event = "TAKEOFF"
    /\ obs.icao24 \in DOMAIN activeFlights
    /\ activeFlights[obs.icao24] = Len(flights)
    /\ flights[Len(flights)] = TakeoffRow(obs)

\* C9: for a vehicle without persisted state, a located record that is airborne
\* and clears both thresholds opens exactly one flight whose takeoff fields are
\* the record's and indexes it; a first record that is on the ground or does
\* not clear a threshold creates no flight.
C9_FirstAirborne ==
    [][(ProcessStep /\ HasPosition(obs') /\ obs'.icao24 \notin DOMAIN current_state)
       => /\ (obs'.onGround = "false" /\ ClearsTakeoffThresholds(obs'))
                => OpensFlightFor(obs')
          /\ (obs'.onGround = "true" \/ ~ClearsTakeoffThresholds(obs'))
                => flights' = flights /\ activeFlights' = activeFlights]_vars

C9_Witness ==
    /\ event = "FIRST_AIRBORNE"
    /\ obs.onGround = "false"
    /\ Len(flights) = 1
    /\ flights[1] = TakeoffRow(obs)
    /\ activeFlights[obs.icao24] = 1

\* C7 as claimed: a record with unknown on-ground flag opens no flight and
\* closes no flight.
C7_UnknownNeverTransitions ==
    [][(ProcessStep /\ obs'.onGround = "null")
       => /\ Len(flights') = Len(flights)
          /\ \A i \in 1..Len(flights) :
                flights'[i].landing_time = flights[i].landing_time]_vars

\* C5 as claimed: with a persisted airborne state and an open flight, a located
\* on-ground record with known speed < 5 closes that flight with the record's
\* time and position and duration = timestamp - the flight's takeoff time, and
\* un-indexes the vehicle; with unknown speed or speed >= 5 nothing is closed.
C5_Landing ==
    [][(ProcessStep /\ HasPosition(obs') /\ obs'.icao24 \in DOMAIN current_state
        /\ current_state[obs'.icao24].on_ground = 0 /\ obs'.onGround = "true")
       => IF obs'.velocity # Null /\ obs'.velocity < 5
          THEN OpenFlights(flights, obs'.icao24) # {}
               => /\ \E f \in OpenFlights(flights, obs'.icao24) :
                       /\ flights'[f].landing_time = obs'.lastContact
                       /\ flights'[f].landing_latitude = obs'.latitude
                       /\ flights'[f].landing_longitude = obs'.longitude
                       /\ flights'[f].duration_seconds
                             = obs'.lastContact - flights[f].takeoff_time
                       /\ \A g \in 1..Len(flights) \ {f} : flights'[g] = flights[g]
                  /\ Len(flights') = Len(flights)
                  /\ obs'.icao24 \notin DOMAIN activeFlights'
          ELSE /\ \A i \in 1..Len(flights) :
                     flights'[i].landing_time = flights[i].landing_time
               /\ Len(flights') = Len(flights)]_vars

DistanceOf(row) == IF row.distance_km = Null THEN 0 ELSE row.distance_km

Created(before, after) == Len(after) - Len(before)

Closed(before, after) ==
    Cardinality({i \in 1..Len(before) :
                    before[i].landing_time = Null /\ after[i].landing_time # Null})

\* C8 as claimed: processing again the record that was just processed creates,
\* together with the first processing, at most one flight, closes at most one
\* flight, and leaves every flight's accumulated distance as the first
\* processing left it.
C8_Idempotence ==
    (obs # NoObs /\ ~raised)
    => \A again \in processAircraftState(current_state, flights, activeFlights, obs) :
          /\ Created(flights, again.flights)
                + (IF event \in {"TAKEOFF", "FIRST_AIRBORNE"} THEN 1 ELSE 0) <= 1
          /\ Closed(flights, again.flights) + (IF event = "LANDING" THEN 1 ELSE 0) <= 1
          /\ \A i \in 1..Len(flights) :
                DistanceOf(again.flights[i]) = DistanceOf(flights[i])

\* C10 as claimed: when the process starts with exactly one open flight F of a
\* tracked vehicle in the store, initializeActiveFlights maps the vehicle to F,
\* and a landing observed next closes F and no other flight.
C10_Restart ==
    [][/\ (event' = "RESTART" /\ nObs' = nObs)
            => \A v \in DOMAIN current_state :
                  \A f \in OpenFlights(flights, v) :
                      OpenFlights(flights, v) = {f}
                          => v \in DOMAIN activeFlights' /\ activeFlights'[v] = f
       /\ (event = "RESTART" /\ ProcessStep /\ event' = "LANDING")
            => \A f \in OpenFlights(flights, obs'.icao24) :
                  OpenFlights(flights, obs'.icao24) = {f}
                      => /\ flights'[f].landing_time = obs'.lastContact
                         /\ \A g \in 1..Len(flights) \ {f} : flights'[g] = flights[g]]_vars

\* C6 as claimed: after the round trip the store holds exactly one flight of
\* the vehicle, closed at the third record, with duration 600 s and distance
\* the segment from the second record's position to the third's, and the
\* index has no entry for the vehicle.
C6_RoundTrip ==
    (script # <<>> /\ nObs = Len(script))
    => /\ Len(flights) = 1
       /\ flights[1].icao24 = script[1].icao24
       /\ flights[1].landing_time = script[3].lastContact
       /\ flights[1].duration_seconds = 600
       /\ DistanceOf(flights[1]) = calculateDistance(script[2].latitude, script[2].longitude,
                                                     script[3].latitude, script[3].longitude)
       /\ script[1].icao24 \notin DOMAIN activeFlights

\* C17: a record without latitude and without longitude changes nothing: no
\* position row, no last-known state, no flight row, no index entry, no error.
C17_NoPositionRejected ==
    [][(ProcessStep /\ obs'.latitude = Null /\ obs'.longitude = Null)
       => /\ UNCHANGED <<positions, current_state, flights, activeFlights>>
          /\ ~raised']_vars

\* a record without position arrives while the vehicle has an indexed open flight
C17_Witness ==
    /\ event = "SKIP"
    /\ obs.latitude = Null /\ obs.longitude = Null
    /\ obs.icao24 \in DOMAIN activeFlights
    /\ obs.icao24 \in DOMAIN current_state

\* the on_ground column that carries the record's on-ground value
OnGroundOf(o) ==
    CASE o.onGround = "true" -> 1
      [] o.onGround = "false" -> 0
      [] OTHER -> Null

\* C16 as claimed: every record with a position adds exactly one position row
\* and leaves the vehicle's last-known state holding the record's timestamp,
\* position, altitude, speed, heading and on-ground value.
C16_PositionAndStateWritten ==
    [][(ProcessStep /\ HasPosition(obs'))
       => /\ positions'.count = positions.count + 1
          /\ positions'.last.icao24 = obs'.icao24
          /\ positions'.last.timestamp = obs'.lastContact
          /\ obs'.icao24 \in DOMAIN current_state'
          /\ current_state'[obs'.icao24] =
                [timestamp |-> obs'.lastContact, latitude |-> obs'.latitude,
                 longitude |-> obs'.longitude, altitude |-> obs'.altitude,
                 velocity |-> obs'.velocity, heading |-> obs'.heading,
                 on_ground |-> OnGroundOf(obs')]]_vars

DetectsLanding(o) ==
    /\ HasPosition(o)
    /\ o.icao24 \in DOMAIN current_state
    /\ current_state[o.icao24].on_ground = 0
    /\ o.onGround = "true"
    /\ o.velocity # Null /\ o.velocity < 5

\* C15: a landing detected for a vehicle that has no index entry and no open
\* flight in the store leaves flights and index as they are and does not raise.
C15_UnmatchedLanding ==
    [][(ProcessStep /\ DetectsLanding(obs')
        /\ obs'.icao24 \notin DOMAIN activeFlights
        /\ OpenFlights(flights, obs'.icao24) = {})
       => /\ flights' = flights
          /\ activeFlights' = activeFlights
          /\ ~raised']_vars

\* an unmatched landing after a flight of the vehicle was closed
C15_Witness ==
    /\ event = "LANDING_UNMATCHED"
    /\ ~raised
    /\ \E i \in 1..Len(flights) : flights[i].icao24 = obs.icao24
    /\ OpenFlights(flights, obs.icao24) = {}

IndexConsistent(af, fl) ==
    \A v \in DOMAIN af :
        /\ af[v] \in 1..Len(fl)
        /\ fl[af[v]].icao24 = v
        /\ fl[af[v]].landing_time = Null

\* C13: after every step an index entry names an open flight of its vehicle;
\* the step that creates a flight sets the vehicle's entry to it, and the step
\* that closes a flight removes the vehicle's entry.
C13_IndexConsistency ==
    [][/\ IndexConsistent(activeFlights', flights')
       /\ Len(flights') > Len(flights)
            => /\ Len(flights') = Len(flights) + 1
               /\ flights'[Len(flights')].icao24 \in DOMAIN activeFlights'
               /\ activeFlights'[flights'[Len(flights')].icao24] = Len(flights')
       /\ \A i \in 1..Len(flights) :
            (flights[i].landing_time = Null /\ flights'[i].landing_time # Null)
                => flights[i].icao24 \notin DOMAIN activeFlights']_vars

\* a flight was opened and indexed, closed and un-indexed, and the next one is indexed
C13_Witness ==
    /\ Len(flights) = 2
    /\ flights[1].landing_time # Null
    /\ flights[2].landing_time = Null
    /\ flights[1].icao24 = flights[2].icao24
    /\ flights[2].icao24 \in DOMAIN activeFlights
    /\ activeFlights[flights[2].icao24] = 2

\* previous state airborne, new record airborne: no transition
SteadyAirborne(o) ==
    /\ HasPosition(o)
    /\ o.icao24 \in DOMAIN current_state
    /\ current_state[o.icao24].on_ground = 0
    /\ o.onGround = "false"

Max(a, b) == IF a >= b THEN a ELSE b

\* C14: with no index entry for the vehicle and an open flight of it in the
\* store, a landing closes an open store flight with the record's time and
\* position, and a steady-airborne record puts an open store flight into the
\* index and, when it is the only open one, adds the segment flown to its
\* distance and raises its maximum altitude.
C14_IndexMissFallsBack ==
    [][(ProcessStep /\ obs'.icao24 \notin DOMAIN activeFlights
        /\ OpenFlights(flights, obs'.icao24) # {})
       => /\ DetectsLanding(obs')
               => \E f \in OpenFlights(flights, obs'.icao24) :
                     /\ flights'[f].landing_time = obs'.lastContact
                     /\ flights'[f].landing_latitude = obs'.latitude
                     /\ flights'[f].landing_longitude = obs'.longitude
                     /\ event' = "LANDING"
          /\ SteadyAirborne(obs')
               => \E f \in OpenFlights(flights, obs'.icao24) :
                     /\ obs'.icao24 \in DOMAIN activeFlights'
                     /\ activeFlights'[obs'.icao24] = f
                     /\ event' = "ONGOING"
                     /\ OpenFlights(flights, obs'.icao24) = {f}
                          => /\ flights'[f].distance_km = DistanceOf(flights[f])
                                  + calculateDistance(
                                        current_state[obs'.icao24].latitude,
                                        current_state[obs'.icao24].longitude,
                                        obs'.latitude, obs'.longitude)
                             /\ Num(flights'[f].max_altitude)
                                  = Max(Num(flights[f].max_altitude), Num(obs'.altitude))]_vars

\* after a restart that left the vehicle out of the index, a record of the
\* moving vehicle has updated its open flight
C14_Witness ==
    /\ indexMiss
    /\ event = "ONGOING"
    /\ obs.icao24 \notin ConfigAircraft
    /\ Len(flights) = 1
    /\ flights[1].distance_km # Null /\ flights[1].distance_km > 0
    /\ activeFlights[obs.icao24] = 1

\* the source gives no ground sentinel or flag, no altitude and no speed
NoGroundSignal(aircraft) ==
    CASE aircraft.source = "dump1090-fa" ->
            aircraft.alt_baro = Undef /\ aircraft.altitude = Undef /\ aircraft.speed = Undef
      [] aircraft.source = "adsb.lol" -> aircraft.alt_baro = Undef /\ aircraft.gs = Undef
      [] aircraft.source = "opensky" -> aircraft.on_ground = "null"

\* C18 as claimed: a source object without any ground signal yields a record
\* whose on-ground flag is unknown, and a record with unknown flag is not
\* stored with on_ground 0 (airborne) or 1 (on ground).
C18_UnknownStaysUnknown ==
    /\ (apc \in {"parsed", "stored"} /\ NoGroundSignal(raw)) => canonical.onGround = "null"
    /\ (apc = "stored" /\ canonical.onGround = "null") => stored \notin {0, 1}

\* the altitude field the ground sentinel travels in
HasGroundSentinel(aircraft) == aircraft.alt_baro = Ground

\* C26 as claimed: in the dump1090 and adsb.lol adapters a source object with
\* the ground sentinel gives an on-ground record; without the sentinel the
\* record is on-ground exactly when its altitude is known and below 50 m and
\* its speed is known and below 15 m/s; in every other case the flag is what
\* the source reported: airborne when it reported a barometric altitude,
\* unknown when it reported none.
C26_GroundInference ==
    (apc \in {"parsed", "stored"} /\ raw.source \in {"dump1090-fa", "adsb.lol"}) =>
        LET inferred == /\ canonical.altitude # Null /\ canonical.altitude < 50 * 10000
                        /\ canonical.velocity # Null /\ canonical.velocity < 15 * 1000000
        IN /\ HasGroundSentinel(raw) => canonical.onGround = "true"
           /\ ~HasGroundSentinel(raw) => (canonical.onGround = "true" <=> inferred)
           /\ (~HasGroundSentinel(raw) /\ ~inferred) =>
                  canonical.onGround = IF raw.alt_baro = Undef THEN "null" ELSE "false"

\* C27 as claimed: a processAircraftState call never lowers the maximum
\* altitude of an open flight; a flight starts with the altitude of its
\* takeoff record as maximum (so a maximum that never decreases stays at or
\* above the takeoff altitude); and after an airborne record without
\* transition the maximum of the vehicle's indexed flight is at least the
\* record's altitude.
C27_MaxAltitudeNeverDecreases ==
    [][ProcessStep =>
        /\ \A i \in 1..Len(flights) :
              flights[i].landing_time = Null
                  => Num(flights'[i].max_altitude) >= Num(flights[i].max_altitude)
        /\ Len(flights') > Len(flights)
              => flights'[Len(flights')].max_altitude = obs'.altitude
        /\ (event' = "ONGOING" /\ ~raised' /\ obs'.onGround = "false"
            /\ obs'.altitude # Null)
              => Num(flights'[activeFlights'[obs'.icao24]].max_altitude) >= obs'.altitude]_vars

\* C28 as claimed: a steady-airborne record at the position of the previous
\* record, whose altitude exceeds the maximum of no open flight of the
\* vehicle, leaves every flight row as it was (no update is written).
C28_NoWriteWhenNothingChanges ==
    [][(/\ ProcessStep
        /\ SteadyAirborne(obs')
        /\ event' = "ONGOING"
        /\ obs'.latitude = current_state[obs'.icao24].latitude
        /\ obs'.longitude = current_state[obs'.icao24].longitude
        /\ \A f \in OpenFlights(flights, obs'.icao24) :
              Num(obs'.altitude) <= Num(flights[f].max_altitude))
       => flights' = flights]_vars

\* C29 as claimed: a located record with unknown on-ground flag creates and
\* modifies no flight when the vehicle has no open flight, and when the vehicle
\* has one open flight it adds the segment flown to that flight's distance and
\* raises its maximum altitude to the record's altitude, as an airborne record
\* does.
C29_UnknownFlagSteadyState ==
    [][(ProcessStep /\ HasPosition(obs') /\ obs'.onGround = "null")
       => /\ OpenFlights(flights, obs'.icao24) = {} => flights' = flights
          /\ \A f \in OpenFlights(flights, obs'.icao24) :
                OpenFlights(flights, obs'.icao24) = {f}
                   => /\ Len(flights') = Len(flights)
                      /\ flights'[f].landing_time = Null
                      /\ flights'[f].distance_km = DistanceOf(flights[f])
                            + calculateDistance(
                                  current_state[obs'.icao24].latitude,
                                  current_state[obs'.icao24].longitude,
                                  obs'.latitude, obs'.longitude)
                      /\ Num(flights'[f].max_altitude)
                            = Max(Num(flights[f].max_altitude), Num(obs'.altitude))]_vars

\* the index holds a flight of the vehicle that is closed in the store
StaleIndexEntry(icao24) ==
    /\ icao24 \in DOMAIN activeFlights
    /\ flights[activeFlights[icao24]].landing_time # Null

\* C30 as claimed: when the index holds for a vehicle a flight that is closed
\* in the store, a landing record or a steady-airborne record of the vehicle
\* changes no flight row and the call does not throw.
C30_StoreDecidesOpenFlight ==
    [][(/\ ProcessStep
        /\ StaleIndexEntry(obs'.icao24)
        /\ DetectsLanding(obs') \/ SteadyAirborne(obs'))
       => (flights' = flights /\ ~raised')]_vars

\* C32 as claimed: when the process stopped after the last-known state was
\* written and before the flight was created on a takeoff (closed on a landing),
\* then after the restart the next record of the vehicle that is airborne above
\* both thresholds leaves it with an open flight (the next on-ground record
\* below 5 m/s leaves it with no open flight).
C32_CrashSafe ==
    [][ProcessStep /\ event' \in {"NONE", "ONGOING", "TAKEOFF", "LANDING", "LANDING_UNMATCHED"}
       /\ obs'.icao24 = obs.icao24 =>
          /\ (event = "CRASH_TAKEOFF" /\ obs'.onGround = "false"
              /\ ClearsTakeoffThresholds(obs'))
                => OpenFlights(flights', obs'.icao24) # {}
          /\ (event = "CRASH_LANDING" /\ obs'.onGround = "true"
              /\ obs'.velocity # Null /\ obs'.velocity < 5)
                => OpenFlights(flights', obs'.icao24) = {}]_vars

\* C33 as claimed: when a pollFleetData cycle has ended, normally or in its
\* catch block after a call threw, every record of its snapshot was handed to
\* processAircraftState, and another cycle can start.
C33_PerVehicleIndependence ==
    (cycles # <<>> /\ cycles[Len(cycles)] \in {"done", "caught"}) =>
        /\ script = <<>>
        /\ Len(cycles) < MaxCycles /\ nObs < MaxObs => ENABLED CycleStart

\* C34 as claimed: after any sequence of processed records the store holds at
\* most one open flight (no landing time) per vehicle.
C34_AtMostOneOpenFlight ==
    \A v \in Vehicles : Cardinality(OpenFlights(flights, v)) <= 1

\* C35 as claimed: a located on-ground record with known speed below 5 m/s,
\* processed while the vehicle has an open flight, leaves the vehicle without an
\* open flight, whatever on-ground records were processed before it.
C35_LandingNotMissed ==
    [][ProcessStep /\ HasPosition(obs') /\ ~raised'
       /\ obs'.onGround = "true" /\ obs'.velocity # Null /\ obs'.velocity < 5
       /\ Cardinality(OpenFlights(flights, obs'.icao24)) = 1
       => OpenFlights(flights', obs'.icao24) = {}]_vars

\* C36 as claimed: a vehicle seen on the ground, then in records that are
\* airborne below a threshold or carry no on-ground flag, has an open flight
\* once a record with on-ground = false, altitude > 50 m and speed > 15 m/s has
\* been processed.
C36_TakeoffNotMissed ==
    (script # <<>> /\ nObs = Len(script)
     /\ obs.onGround = "false" /\ ClearsTakeoffThresholds(obs))
        => OpenFlights(flights, obs.icao24) # {}

\* C37 as claimed: with two calls of one vehicle interleaved at their store
\* awaits, the departure opens at most one flight, and a flight that has been
\* closed is not written again (one landing time, duration and distance).
C37_InterleavingSafe ==
    [][/\ Len(flights') <= 1
       /\ \A i \in 1..Len(flights) :
             flights[i].landing_time # Null => flights'[i] = flights[i]]_vars

\* C38 as claimed: when a call takes the landing or the steady-airborne branch
\* with an index entry for the vehicle, the store's most recent open flight of
\* the vehicle (the row read) is the flight the index names (the row written).
C38_RowReadIsRowWritten ==
    [][ProcessStep /\ event' \in {"LANDING", "ONGOING"}
       /\ obs'.icao24 \in DOMAIN activeFlights
       => getActiveFlight(flights, obs'.icao24) = {activeFlights[obs'.icao24]}]_vars

\* C39: with the records of each vehicle processed in non-decreasing timestamp
\* order, every closed flight has a landing time not before its takeoff time
\* and a stored duration equal to landing time minus takeoff time.
C39_DurationIsLandingMinusTakeoff ==
    \A i \in 1..Len(flights) :
        flights[i].landing_time # Null =>
            /\ flights[i].landing_time >= flights[i].takeoff_time
            /\ flights[i].duration_seconds
                 = flights[i].landing_time - flights[i].takeoff_time
            /\ flights[i].duration_seconds >= 0

\* a flight closed 600 s after its takeoff, with records in between
C39_Witness ==
    \E i \in 1..Len(flights) :
        /\ flights[i].landing_time = 1600
        /\ flights[i].takeoff_time = 1000
        /\ flights[i].duration_seconds = 600
        /\ nObs >= 3

\* C40 as claimed: no step lowers the accumulated distance of a flight, and
\* the flight closed by the landing record holds the sum of the segments
\* between consecutive records from the takeoff record to the landing record.
C40_DistanceIsSumOfSegments ==
    [][ProcessStep =>
         /\ \A i \in 1..Len(flights) : DistanceOf(flights'[i]) >= DistanceOf(flights[i])
         /\ nObs' = Len(script) =>
              /\ Len(flights') = 1
              /\ flights'[1].landing_time = script[4].lastContact
              /\ DistanceOf(flights'[1])
                   = calculateDistance(script[2].latitude, script[2].longitude,
                                       script[3].latitude, script[3].longitude)
                     + calculateDistance(script[3].latitude, script[3].longitude,
                                         script[4].latitude, script[4].longitude)]_vars

\* C11 as claimed: when a pollFleetData cycle starts, no earlier cycle is
\* still fetching or still processing its snapshot.
C11_NoOverlap ==
    [][Len(cycles') > Len(cycles)
       => \A i \in 1..Len(cycles) : cycles[i] \notin {"fetching", "processing"}]_vars

\* a getAccessToken call is made
CallStep == tpc = "idle" /\ tpc' # "idle"
\* a token request is sent
RequestStep == tokenRequests' = tokenRequests + 1
\* a token is cached and the time is before acquisition + lifetime - 300 s
BeforeRefresh ==
    accessToken # Null /\ clock < granted.at + granted.expires_in - 300

\* C19: a token request is sent only by a call made with no cached token or at
\* or after acquisition + declared lifetime - 300 s; a call made before that
\* instant returns the cached token, sends nothing and leaves the cache alone.
C19_TokenCaching ==
    [][/\ RequestStep => (CallStep /\ ~BeforeRefresh)
       /\ (CallStep /\ BeforeRefresh)
            => /\ ~RequestStep
               /\ outcome'.call = "cached"
               /\ outcome'.token = accessToken
               /\ UNCHANGED <<accessToken, tokenExpiry>>]_vars

\* a second token was requested after the first had expired, and a later call
\* within its last seconds of validity got it from the cache
C19_Witness ==
    /\ tokenRequests = 2
    /\ accessToken = 2
    /\ outcome.call = "cached"
    /\ outcome.token = 2
    /\ clock > granted.at
    /\ clock = granted.at + granted.expires_in - 301

\* the token request just failed, or the states request was rate-limited
AfterFailure == outcome.call = "failed" \/ outcome.states = "rate_limit"

FailureLeavesCache ==
    /\ (tpc = "token_wait" /\ outcome'.call = "failed")
            => UNCHANGED <<accessToken, tokenExpiry>>
    /\ (tpc = "states_wait" /\ outcome'.states = "rate_limit")
            => UNCHANGED <<accessToken, tokenExpiry>>

\* C20 as claimed: a failed token request and a rate-limited states request
\* leave the cached token and its expiry as they were, and the next
\* getAccessToken call without a valid cached token sends a token request.
C20_FailureNotCached_AsClaimed ==
    [][/\ FailureLeavesCache
       /\ (CallStep /\ AfterFailure /\ ~BeforeRefresh) => RequestStep]_vars

\* C20: a failed token request and a rate-limited states request leave the
\* cached token and its expiry as they were, and the next getAccessToken call
\* without a valid cached token sends a token request when client credentials
\* are configured (without credentials no call ever sends one).
C20_FailureNotCached ==
    [][/\ FailureLeavesCache
       /\ (CallStep /\ AfterFailure /\ ~BeforeRefresh)
            => (IF credentials THEN RequestStep ELSE ~RequestStep)]_vars

\* a token request failed while an expired token was cached, and the next
\* call has sent a new request
C20_Witness ==
    /\ tpc = "token_wait"
    /\ tokenRequests = 3
    /\ accessToken = 1
    /\ tokenExpiry = TokenExpiry(granted.at, granted.expires_in)

====
